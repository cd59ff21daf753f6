--------------------------- MODULE DataflowProofs ---------------------------
(***************************************************************************)
(* The engine moves data as Dataflow says, in any workflow whose waiting   *)
(* executions are never overwritten. First where a packet can be: in an    *)
(* item in line or at an input that waits, and in one place only; then     *)
(* what adding a packet, the look at what waits and each kind of step do   *)
(* to these places; then the refinement. Last, where nodes can be in a     *)
(* workflow without loops or shared inputs, in which no waiting execution  *)
(* is ever overwritten.                                                    *)
(***************************************************************************)
EXTENDS WorkflowExecuteProofs

-----------------------------------------------------------------------------
(* Where packets are                                                       *)

(* p has come over a connection to the i-th input of n.                    *)
Arrived(p, n, i) == /\ p \in Packet /\ p.conn \in MainConns
                    /\ p.conn.to = n /\ p.conn.in = i - 1

(* Each input of n holds what has come over a connection to it, or nothing.*)
Fits(n, main) == \A i \in 1..Len(main) : main[i] \in {Null, Empty} \/ Arrived(main[i], n, i)

(* An item is that of a tool, or starts the execution, or holds what its   *)
(* node has received.                                                      *)
Lawful(x) ==
  IF x.node \in Tools THEN Packets(x.main) = {}
  ELSE x.main = <<Trigger>> \/ (Fits(x.node, x.main) /\ Packets(x.main) # {})

(* The packets of the items l, of entries e, of what waits, and of both    *)
HeldS(l)   == UNION {Packets(l[i].main) : i \in 1..Len(l)}
HeldE(e)   == UNION {Packets(e[k]) : k \in DOMAIN e}
HeldW(w)   == UNION {HeldE(EntriesOf(w, n)) : n \in Node}
Held(l, w) == HeldS(l) \cup HeldW(w)

(* The entries of node n hold what it has received, every packet in one.   *)
SoundE(n, e) ==
  /\ \A k \in DOMAIN e : Fits(n, e[k])
  /\ \A k, j \in DOMAIN e : k # j => Packets(e[k]) \cap Packets(e[j]) = {}

(* Every node waits once.                                                  *)
Once(w) == \A i, j \in 1..Len(w) : w[i].node = w[j].node => i = j

(* Every packet is in one place, and there rightly.                        *)
Sound(l, w) ==
  /\ \A i \in 1..Len(l) : Lawful(l[i])
  /\ \A i, j \in 1..Len(l) : i # j => Packets(l[i].main) \cap Packets(l[j].main) = {}
  /\ Once(w)
  /\ \A n \in Node : SoundE(n, EntriesOf(w, n))
  /\ HeldS(l) \cap HeldW(w) = {}

(* A packet is none of the markers.                                        *)
LEMMA Unmarked ==
  /\ \A p \in Packet : p \notin {Null, Hole, Empty, Call, Trigger}
  /\ Trigger \notin {Null, Hole, Empty, Call} /\ Call \notin {Null, Hole, Empty} /\ Hole \notin {Null, Empty}
  /\ Null # Empty
BY EngineAssumption DEF EngineAssumption

(* What a node has received                                                *)
LEMMA FitsPackets ==
  ASSUME NEW n, NEW main \in Seq(Data), Fits(n, main)
  PROVE  /\ \A p \in Packets(main) : \E i \in 1..Len(main) : main[i] = p /\ Arrived(p, n, i)
         /\ \A i \in 1..Len(main) : Arrived(main[i], n, i) => main[i] \in Packets(main)
         /\ Packets(main) \subseteq Packet
<1>1. Packets(main) = {main[i] : i \in 1..Len(main)} \ {Null, Hole, Empty, Call}
  BY PacketsOf, SetOf
<1> QED
  BY <1>1, Unmarked DEF Fits, Arrived

(* What a node has received can be consumed, and so can the trigger's      *)
(* packet.                                                                 *)
LEMMA LawfulIsConsumable ==
  ASSUME NEW x \in Items, Lawful(x), x.node \notin Tools
  PROVE  Packets(x.main) # {} /\ Flow!Consumable(x.node, Packets(x.main))
<1>1. x.main \in Seq(Data)
  BY DEF Items
<1>2. CASE x.main = <<Trigger>>
  <2>1. Packets(<<Trigger>>) = {Trigger}
    BY Unmarked DEF Packets
  <2> QED
    BY <1>2, <2>1 DEF Flow!Consumable
<1>3. CASE Fits(x.node, x.main) /\ Packets(x.main) # {}
  <2>1. \A p \in Packets(x.main) : \E i \in 1..Len(x.main) : x.main[i] = p /\ Arrived(p, x.node, i)
    BY <1>1, <1>3, FitsPackets
  <2>2. \A p \in Packets(x.main) : p # Trigger /\ p.conn.to = x.node
    BY <2>1, Unmarked DEF Arrived
  <2>3. ASSUME NEW p \in Packets(x.main), NEW q \in Packets(x.main), p.conn.in = q.conn.in
        PROVE  p = q
    <3>1. PICK i \in 1..Len(x.main) : x.main[i] = p /\ p.conn.in = i - 1
      BY <2>1 DEF Arrived
    <3>2. PICK j \in 1..Len(x.main) : x.main[j] = q /\ q.conn.in = j - 1
      BY <2>1 DEF Arrived
    <3>3. i \in Int /\ j \in Int
      OBVIOUS
    <3>4. i - 1 = j - 1
      BY <2>3, <3>1, <3>2
    <3>5. i = j
      BY <3>3, <3>4
    <3> QED
      BY <3>1, <3>2, <3>5
  <2> QED
    BY <1>3, <2>2, <2>3 DEF Flow!Consumable
<1> QED
  BY <1>2, <1>3 DEF Lawful

(* What waits at n has come over connections to n.                         *)
LEMMA WaitingPackets ==
  ASSUME NEW w \in Seq(Waits), NEW n, SoundE(n, EntriesOf(w, n))
  PROVE  \A p \in HeldE(EntriesOf(w, n)) : p \in Packet /\ p.conn.to = n
<1>1. \A k \in DOMAIN EntriesOf(w, n) : EntriesOf(w, n)[k] \in Seq(Data)
  BY EntriesKnown
<1>2. ASSUME NEW k \in DOMAIN EntriesOf(w, n), NEW p \in Packets(EntriesOf(w, n)[k])
      PROVE  p \in Packet /\ p.conn.to = n
  <2>1. Fits(n, EntriesOf(w, n)[k])
    BY DEF SoundE
  <2>2. PICK main \in Seq(Data) : main = EntriesOf(w, n)[k]
    BY <1>1
  <2> QED
    BY <1>2, <2>1, <2>2, FitsPackets DEF Arrived
<1> QED
  BY <1>2 DEF HeldE

-----------------------------------------------------------------------------
(* Items that come and go                                                  *)

(* The packets in line, by the item they are in                            *)
LEMMA InLine ==
  ASSUME NEW l
  PROVE  \A p : p \in HeldS(l) <=> \E i \in 1..Len(l) : p \in Packets(l[i].main)
BY DEF HeldS

(* The items of t are items of l, d further on, with what they hold, or    *)
(* hold nothing.                                                           *)
LEMMA Moved ==
  ASSUME NEW l \in Seq(Items), NEW w, Sound(l, w), NEW t \in Seq(Items), NEW d \in Int,
         \A i \in 1..Len(t) :
           \/ Packets(t[i].main) = {}
           \/ i + d \in 1..Len(l) /\ Packets(t[i].main) = Packets(l[i + d].main)
  PROVE  /\ HeldS(t) \subseteq HeldS(l)
         /\ (\A i \in 1..Len(t) : Lawful(t[i])) => Sound(t, w)
<1>1. ASSUME NEW p \in HeldS(t)
      PROVE  p \in HeldS(l)
  <2>1. PICK i \in 1..Len(t) : p \in Packets(t[i].main)
    BY <1>1, InLine
  <2>2. i + d \in 1..Len(l) /\ Packets(t[i].main) = Packets(l[i + d].main)
    BY <2>1
  <2> QED
    BY <2>1, <2>2, InLine
<1>2. ASSUME NEW i \in 1..Len(t), NEW j \in 1..Len(t), i # j
      PROVE  Packets(t[i].main) \cap Packets(t[j].main) = {}
  <2>1. CASE Packets(t[i].main) = {} \/ Packets(t[j].main) = {}
    BY <2>1
  <2>2. CASE Packets(t[i].main) # {} /\ Packets(t[j].main) # {}
    <3>1. /\ i + d \in 1..Len(l) /\ Packets(t[i].main) = Packets(l[i + d].main)
          /\ j + d \in 1..Len(l) /\ Packets(t[j].main) = Packets(l[j + d].main)
      BY <2>2
    <3>2. i + d # j + d
      BY <1>2
    <3> QED
      BY <3>1, <3>2 DEF Sound
  <2> QED
    BY <2>1, <2>2
<1>3. HeldS(l) \cap HeldW(w) = {} /\ Once(w) /\ \A n \in Node : SoundE(n, EntriesOf(w, n))
  BY DEF Sound
<1>4. HeldS(t) \cap HeldW(w) = {}
  BY <1>1, <1>3
<1> QED
  BY <1>1, <1>2, <1>3, <1>4 DEF Sound

(* One more item, with packets that are nowhere else                       *)
LEMMA OnTop ==
  ASSUME NEW l \in Seq(Items), NEW w, Sound(l, w), NEW x \in Items, Lawful(x),
         Packets(x.main) \cap Held(l, w) = {}, NEW t, t = <<x>> \o l
  PROVE  Sound(t, w) /\ HeldS(t) = Packets(x.main) \cup HeldS(l)
<1>1. t \in Seq(Items) /\ Len(t) = Len(l) + 1 /\ t[1] = x /\ Len(l) \in Nat
  OBVIOUS
<1>2. \A i \in 1..Len(l) : t[i + 1] = l[i] /\ i + 1 \in 1..Len(t) /\ i + 1 # 1
  OBVIOUS
<1>3. \A i \in 1..Len(t) : i = 1 \/ (i - 1 \in 1..Len(l) /\ t[i] = l[i - 1])
  BY <1>1, <1>2
<1>4. 1 \in 1..Len(t)
  BY <1>1
<1>5. HeldS(t) = Packets(x.main) \cup HeldS(l)
  <2>1. ASSUME NEW p \in HeldS(t)
        PROVE  p \in Packets(x.main) \cup HeldS(l)
    <3>1. PICK i \in 1..Len(t) : p \in Packets(t[i].main)
      BY <2>1, InLine
    <3> QED
      BY <1>1, <1>3, <3>1, InLine
  <2>2. ASSUME NEW p \in HeldS(l)
        PROVE  p \in HeldS(t)
    <3>1. PICK i \in 1..Len(l) : p \in Packets(l[i].main)
      BY <2>2, InLine
    <3> QED
      BY <1>2, <3>1, InLine
  <2>3. Packets(x.main) \subseteq HeldS(t)
    BY <1>1, <1>4, InLine
  <2> QED
    BY <2>1, <2>2, <2>3
<1>6. \A i \in 1..Len(t) : Lawful(t[i])
  BY <1>1, <1>3 DEF Sound
<1>7. ASSUME NEW i \in 1..Len(t), NEW j \in 1..Len(t), i # j
      PROVE  Packets(t[i].main) \cap Packets(t[j].main) = {}
  <2>1. \A k \in 1..Len(l) : Packets(x.main) \cap Packets(l[k].main) = {}
    BY InLine DEF Held
  <2>2. CASE i = 1
    <3>1. j - 1 \in 1..Len(l) /\ t[j] = l[j - 1]
      BY <1>3, <1>7, <2>2
    <3> QED
      BY <1>1, <2>1, <2>2, <3>1
  <2>3. CASE j = 1
    <3>1. i - 1 \in 1..Len(l) /\ t[i] = l[i - 1]
      BY <1>3, <1>7, <2>3
    <3> QED
      BY <1>1, <2>1, <2>3, <3>1
  <2>4. CASE i # 1 /\ j # 1
    <3>1. i - 1 \in 1..Len(l) /\ t[i] = l[i - 1] /\ j - 1 \in 1..Len(l) /\ t[j] = l[j - 1]
      BY <1>3, <2>4
    <3>2. i - 1 # j - 1
      BY <1>7
    <3> QED
      BY <3>1, <3>2 DEF Sound
  <2> QED
    BY <2>2, <2>3, <2>4
<1> QED
  BY <1>5, <1>6, <1>7 DEF Sound, Held

-----------------------------------------------------------------------------
(* Entries that come and go                                                *)

(* The entries of a node that waits, of one that does not                  *)
LEMMA EntriesAre ==
  ASSUME NEW w, Once(w), DOMAIN w = 1..Len(w), NEW n
  PROVE  /\ \A i \in DOMAIN w : w[i].node = n => EntriesOf(w, n) = w[i].entries
         /\ n \notin NodesOf(w) => EntriesOf(w, n) = <<>>
<1>1. ASSUME NEW i \in DOMAIN w, w[i].node = n
      PROVE  EntriesOf(w, n) = w[i].entries
  <2>1. \A j \in DOMAIN w : w[j].node = n => j = i
    BY <1>1 DEF Once
  <2> QED
    BY <1>1, <2>1 DEF EntriesOf
<1> QED
  BY <1>1 DEF EntriesOf, NodesOf

(* n has the entries e in v; the other nodes wait as they do in w.         *)
Replaced(v, w, n, e) ==
  /\ Once(v) /\ EntriesOf(v, n) = e
  /\ \A m : m # n => EntriesOf(v, m) = EntriesOf(w, m)
  /\ NodesOf(v) = IF DOMAIN e = {} THEN NodesOf(w) \ {n} ELSE NodesOf(w) \cup {n}

(* waitingExecution has one entry for each node.                           *)
LEMMA SetEntriesReplaces ==
  ASSUME NEW w \in Seq(Waits), Once(w), NEW n \in Node, NEW e \in Entries,
         DOMAIN e = {} => n \in NodesOf(w),
         NEW v, v = SetEntries(w, n, e)
  PROVE  Replaced(v, w, n, e)
<1>1. DOMAIN w = 1..Len(w) /\ Len(w) \in Nat
  OBVIOUS
<1> DEFINE x == [node |-> n, entries |-> e]
<1>2. CASE n \notin NodesOf(w)
  <2>1. v = Append(w, x) /\ DOMAIN e # {}
    BY <1>2 DEF SetEntries, NodesOf
  <2>2. /\ DOMAIN v = 1..Len(v) /\ Len(v) = Len(w) + 1 /\ v[Len(v)].node = n /\ v[Len(v)].entries = e
        /\ \A i \in DOMAIN w : v[i] = w[i] /\ i \in DOMAIN v
        /\ \A i \in DOMAIN v : i = Len(v) \/ i \in DOMAIN w
        /\ Len(v) \in DOMAIN v
    BY <1>1, <2>1
  <2>3. \A i \in DOMAIN w : w[i].node # n
    BY <1>2 DEF NodesOf
  <2> HIDE DEF x
  <2>4. Once(v)
    BY <1>1, <2>2, <2>3 DEF Once
  <2>5. NodesOf(v) = NodesOf(w) \cup {n}
    <3>1. ASSUME NEW m \in NodesOf(v) PROVE m \in NodesOf(w) \cup {n}
      BY <2>2 DEF NodesOf
    <3>2. ASSUME NEW m \in NodesOf(w) PROVE m \in NodesOf(v)
      BY <2>2 DEF NodesOf
    <3>3. n \in NodesOf(v)
      BY <2>2 DEF NodesOf
    <3> QED
      BY <3>1, <3>2, <3>3
  <2>6. EntriesOf(v, n) = e
    BY <2>2, <2>4, EntriesAre
  <2>7. ASSUME NEW m, m # n
        PROVE  EntriesOf(v, m) = EntriesOf(w, m)
    <3>1. CASE m \notin NodesOf(w)
      <4>1. m \notin NodesOf(v)
        BY <3>1, <2>5, <2>7
      <4> QED
        BY <3>1, <4>1, <1>1, <2>2, <2>4, EntriesAre
    <3>2. CASE m \in NodesOf(w)
      <4>1. PICK i \in DOMAIN w : w[i].node = m
        BY <3>2 DEF NodesOf
      <4>2. EntriesOf(w, m) = w[i].entries
        BY <4>1, <1>1, EntriesAre
      <4>3. i \in DOMAIN v /\ v[i] = w[i]
        BY <2>2
      <4>4. EntriesOf(v, m) = v[i].entries
        BY <4>1, <4>3, <2>2, <2>4, EntriesAre
      <4> QED
        BY <4>2, <4>3, <4>4
    <3> QED
      BY <3>1, <3>2
  <2> QED
    BY <2>1, <2>4, <2>5, <2>6, <2>7 DEF Replaced
<1>3. CASE n \in NodesOf(w)
  <2>1. PICK i \in DOMAIN w : /\ w[i].node = n
                             /\ v = IF DOMAIN e = {} THEN RemoveAt(w, i) ELSE [w EXCEPT ![i].entries = e]
    BY <1>3 DEF SetEntries, NodesOf
  <2>2. \A j \in DOMAIN w : w[j].node = n => j = i
    BY <2>1, <1>1 DEF Once
  <2>3. CASE DOMAIN e = {}
    <3>1. v = SubSeq(w, 1, i - 1) \o SubSeq(w, i + 1, Len(w))
      BY <2>1, <2>3 DEF RemoveAt
    <3> DEFINE a == SubSeq(w, 1, i - 1)
               b == SubSeq(w, i + 1, Len(w))
               at(j) == IF j < i THEN j ELSE j + 1
    <3>2. a \in Seq(Waits) /\ Len(a) = i - 1 /\ \A j \in 1..(i - 1) : a[j] = w[j]
      <4>1. i \in 1..Len(w) /\ w \in Seq(Waits) /\ Len(w) \in Nat
        BY <1>1
      <4>2. i - 1 \in Nat /\ 1..(i - 1) \subseteq 1..Len(w)
        BY <4>1
      <4> QED
        BY <4>1, <4>2
    <3>3. b \in Seq(Waits) /\ Len(b) = Len(w) - i /\ \A j \in 1..Len(b) : i + j \in DOMAIN w /\ b[j] = w[i + j]
      BY <1>1, LastPart
    <3> HIDE DEF a, b
    <3>4. Len(v) = Len(w) - 1 /\ DOMAIN v = 1..Len(v)
      BY <3>1, <3>2, <3>3, <1>1 DEF a, b
    <3>5. ASSUME NEW j \in DOMAIN v
          PROVE  at(j) \in DOMAIN w /\ at(j) # i /\ v[j] = w[at(j)]
      <4>1. v = a \o b
        BY <3>1 DEF a, b
      <4>2. CASE j < i
        <5>1. j \in 1..Len(a) /\ v[j] = a[j]
          BY <4>1, <4>2, <3>2, <3>3, <3>4, <1>1
        <5> QED
          BY <5>1, <4>2, <3>2, <1>1
      <4>3. CASE ~(j < i)
        <5>1. j - Len(a) \in 1..Len(b) /\ v[j] = b[j - Len(a)]
          BY <4>1, <4>3, <3>2, <3>3, <3>4, <1>1
        <5>2. i + (j - Len(a)) = j + 1
          BY <3>2, <3>4, <1>1
        <5> QED
          BY <5>1, <5>2, <4>3, <3>3, <3>4, <1>1
      <4> QED
        BY <4>2, <4>3
    <3>6. ASSUME NEW k \in DOMAIN w, k # i
          PROVE  \E j \in DOMAIN v : v[j] = w[k] /\ at(j) = k
      <4>1. CASE k < i
        <5>1. k \in DOMAIN v /\ at(k) = k
          BY <4>1, <3>4, <1>1
        <5> QED
          BY <5>1, <3>5
      <4>2. CASE ~(k < i)
        <5>1. k - 1 \in DOMAIN v /\ at(k - 1) = k
          BY <4>2, <3>6, <3>4, <1>1
        <5> QED
          BY <5>1, <3>5
      <4> QED
        BY <4>1, <4>2
    <3>7. Once(v)
      <4>1. ASSUME NEW j \in 1..Len(v), NEW k \in 1..Len(v), v[j].node = v[k].node
            PROVE  j = k
        <5>1. at(j) \in DOMAIN w /\ v[j] = w[at(j)] /\ at(k) \in DOMAIN w /\ v[k] = w[at(k)]
          BY <3>4, <3>5
        <5>2. w[at(j)].node = w[at(k)].node
          BY <4>1, <5>1
        <5>3. at(j) = at(k)
          BY <5>1, <5>2, <1>1 DEF Once
        <5>4. j \in Int /\ k \in Int /\ i \in Int
          BY <3>4, <1>1
        <5> QED
          BY <5>3, <5>4
      <4> QED
        BY <4>1 DEF Once
    <3> HIDE DEF at
    <3>8. NodesOf(v) = NodesOf(w) \ {n}
      <4>1. ASSUME NEW m \in NodesOf(v) PROVE m \in NodesOf(w) \ {n}
        <5>1. PICK j \in DOMAIN v : v[j].node = m
          BY <4>1 DEF NodesOf
        <5>2. at(j) \in DOMAIN w /\ at(j) # i /\ v[j] = w[at(j)]
          BY <3>5
        <5> QED
          BY <5>1, <5>2, <2>2 DEF NodesOf
      <4>2. ASSUME NEW m \in NodesOf(w), m # n PROVE m \in NodesOf(v)
        <5>1. PICK k \in DOMAIN w : w[k].node = m
          BY <4>2 DEF NodesOf
        <5>2. k # i
          BY <4>2, <5>1, <2>1
        <5> QED
          BY <5>1, <5>2, <3>6 DEF NodesOf
      <4> QED
        BY <4>1, <4>2
    <3>9. e = <<>>
      BY <2>3 DEF Entries
    <3>10. EntriesOf(v, n) = e
      BY <3>4, <3>7, <3>8, <3>9, EntriesAre
    <3>11. ASSUME NEW m, m # n
           PROVE  EntriesOf(v, m) = EntriesOf(w, m)
      <4>1. CASE m \notin NodesOf(w)
        <5>1. m \notin NodesOf(v)
          BY <4>1, <3>8
        <5> QED
          BY <4>1, <5>1, <1>1, <3>4, <3>7, EntriesAre
      <4>2. CASE m \in NodesOf(w)
        <5>1. PICK k \in DOMAIN w : w[k].node = m
          BY <4>2 DEF NodesOf
        <5>2. k # i
          BY <5>1, <2>1, <3>11
        <5>3. PICK j \in DOMAIN v : v[j] = w[k]
          BY <5>2, <3>6
        <5>4. EntriesOf(w, m) = w[k].entries
          BY <5>1, <1>1, EntriesAre
        <5>5. EntriesOf(v, m) = v[j].entries
          BY <5>1, <5>3, <3>4, <3>7, EntriesAre
        <5> QED
          BY <5>3, <5>4, <5>5
      <4> QED
        BY <4>1, <4>2
    <3> QED
      BY <2>3, <3>7, <3>8, <3>10, <3>11 DEF Replaced
  <2>4. CASE DOMAIN e # {}
    <3>1. v = [w EXCEPT ![i] = [w[i] EXCEPT !.entries = e]]
      BY <2>1, <2>4
    <3> DEFINE y == [w[i] EXCEPT !.entries = e]
    <3>2. y.node = n /\ y.entries = e
      <4>1. w[i] \in Waits
        OBVIOUS
      <4> QED
        BY <4>1, <2>1 DEF Waits
    <3> HIDE DEF y
    <3>3. DOMAIN v = DOMAIN w /\ Len(v) = Len(w) /\ \A j \in DOMAIN w : v[j] = IF j = i THEN y ELSE w[j]
      BY <3>1, <1>1 DEF y
    <3>4. \A j \in DOMAIN w : v[j].node = w[j].node
      BY <3>2, <3>3, <2>1
    <3>5. Once(v)
      BY <3>3, <3>4, <1>1 DEF Once
    <3>6. NodesOf(v) = NodesOf(w) /\ n \in NodesOf(w)
      BY <3>3, <3>4, <1>3 DEF NodesOf
    <3>7. DOMAIN v = 1..Len(v)
      BY <3>3, <1>1
    <3>8. EntriesOf(v, n) = e
      <4>1. i \in DOMAIN v /\ v[i].node = n /\ v[i].entries = e
        BY <3>2, <3>3
      <4> QED
        BY <4>1, <3>5, <3>7, EntriesAre
    <3>9. ASSUME NEW m, m # n
          PROVE  EntriesOf(v, m) = EntriesOf(w, m)
      <4>1. CASE m \notin NodesOf(w)
        BY <4>1, <1>1, <3>5, <3>6, <3>7, EntriesAre
      <4>2. CASE m \in NodesOf(w)
        <5>1. PICK k \in DOMAIN w : w[k].node = m
          BY <4>2 DEF NodesOf
        <5>2. k \in DOMAIN v /\ v[k] = w[k]
          BY <5>1, <2>1, <3>3, <3>9
        <5>3. EntriesOf(w, m) = w[k].entries
          BY <5>1, <1>1, EntriesAre
        <5>4. EntriesOf(v, m) = v[k].entries
          BY <5>1, <5>2, <3>5, <3>7, EntriesAre
        <5> QED
          BY <5>2, <5>3, <5>4
      <4> QED
        BY <4>1, <4>2
    <3> QED
      BY <2>4, <3>5, <3>6, <3>8, <3>9 DEF Replaced
  <2> QED
    BY <2>3, <2>4
<1> QED
  BY <1>2, <1>3

(* What waits in v if n waits with the entries e, and the others as in w   *)
LEMMA ReplacedSound ==
  ASSUME NEW l, NEW w \in Seq(Waits), Sound(l, w), NEW n \in Node, NEW e, NEW v, Replaced(v, w, n, e),
         SoundE(n, e), HeldE(e) \cap HeldS(l) = {}
  PROVE  /\ Sound(l, v)
         /\ HeldW(v) = HeldE(e) \cup (HeldW(w) \ HeldE(EntriesOf(w, n)))
         /\ HeldE(EntriesOf(w, n)) \subseteq HeldW(w)
<1>1. \A m \in Node : SoundE(m, EntriesOf(w, m))
  BY DEF Sound
<1>2. \A m \in Node : \A p \in HeldE(EntriesOf(w, m)) : p.conn.to = m
  BY <1>1, WaitingPackets
<1>3. \A m \in Node : EntriesOf(v, m) = IF m = n THEN e ELSE EntriesOf(w, m)
  BY DEF Replaced
<1>4. HeldW(v) = HeldE(e) \cup (HeldW(w) \ HeldE(EntriesOf(w, n)))
  <2>1. ASSUME NEW p \in HeldW(v), p \notin HeldE(e)
        PROVE  p \in HeldW(w) \ HeldE(EntriesOf(w, n))
    <3>1. PICK m \in Node : p \in HeldE(EntriesOf(v, m))
      BY <2>1 DEF HeldW
    <3>2. m # n /\ p \in HeldE(EntriesOf(w, m))
      BY <2>1, <3>1, <1>3
    <3> QED
      BY <3>2, <1>2 DEF HeldW
  <2>2. ASSUME NEW p \in HeldW(w), p \notin HeldE(EntriesOf(w, n))
        PROVE  p \in HeldW(v)
    <3>1. PICK m \in Node : p \in HeldE(EntriesOf(w, m))
      BY <2>2 DEF HeldW
    <3>2. m # n
      BY <2>2, <3>1
    <3>3. p \in HeldE(EntriesOf(v, m))
      BY <3>1, <3>2, <1>3
    <3> QED
      BY <3>3 DEF HeldW
  <2>3. HeldE(e) \subseteq HeldW(v)
    BY <1>3 DEF HeldW
  <2> QED
    BY <2>1, <2>2, <2>3
<1>5. HeldS(l) \cap HeldW(v) = {}
  BY <1>4 DEF Sound
<1>6. \A m \in Node : SoundE(m, EntriesOf(v, m))
  BY <1>1, <1>3
<1>7. HeldE(EntriesOf(w, n)) \subseteq HeldW(w)
  BY DEF HeldW
<1> QED
  BY <1>4, <1>5, <1>6, <1>7 DEF Sound, Replaced

(* An entry is taken away.                                                 *)
LEMMA WithoutHeld ==
  ASSUME NEW n, NEW e, SoundE(n, e), NEW k \in DOMAIN e, NEW less, less = Without(e, k)
  PROVE  /\ SoundE(n, less) /\ Packets(e[k]) \subseteq HeldE(e)
         /\ HeldE(less) = HeldE(e) \ Packets(e[k])
<1>1. DOMAIN less = DOMAIN e \ {k} /\ \A j \in DOMAIN less : less[j] = e[j] /\ j \in DOMAIN e /\ j # k
  BY DEF Without
<1>2. SoundE(n, less)
  BY <1>1 DEF SoundE
<1>3. HeldE(less) = HeldE(e) \ Packets(e[k])
  <2>1. ASSUME NEW p \in HeldE(less)
        PROVE  p \in HeldE(e) \ Packets(e[k])
    <3>1. PICK j \in DOMAIN less : p \in Packets(less[j])
      BY <2>1 DEF HeldE
    <3> QED
      BY <3>1, <1>1 DEF HeldE, SoundE
  <2>2. ASSUME NEW p \in HeldE(e), p \notin Packets(e[k])
        PROVE  p \in HeldE(less)
    <3>1. PICK j \in DOMAIN e : p \in Packets(e[j])
      BY <2>2 DEF HeldE
    <3>2. j \in DOMAIN less /\ less[j] = e[j]
      BY <3>1, <2>2, <1>1
    <3> QED
      BY <3>1, <3>2 DEF HeldE
  <2> QED
    BY <2>1, <2>2
<1> QED
  BY <1>2, <1>3 DEF HeldE

(* An entry is added, or has received more.                                *)
LEMMA WithHeld ==
  ASSUME NEW n, NEW e, SoundE(n, e), NEW k, NEW main, Fits(n, main),
         k \in DOMAIN e => Packets(e[k]) \subseteq Packets(main),
         \A p \in Packets(main) \cap HeldE(e) : k \in DOMAIN e /\ p \in Packets(e[k]),
         NEW more, more = With(e, k, main)
  PROVE  SoundE(n, more) /\ HeldE(more) = HeldE(e) \cup Packets(main)
<1>1. /\ DOMAIN more = DOMAIN e \cup {k} /\ more[k] = main
      /\ \A j \in DOMAIN more : j # k => more[j] = e[j] /\ j \in DOMAIN e
  BY DEF With
<1>2. \A j \in DOMAIN e : j # k => Packets(e[j]) \cap Packets(main) = {}
  <2> SUFFICES ASSUME NEW j \in DOMAIN e, j # k, NEW p \in Packets(e[j]), p \in Packets(main)
               PROVE  FALSE
    OBVIOUS
  <2>1. k \in DOMAIN e /\ p \in Packets(e[k])
    BY DEF HeldE
  <2> QED
    BY <2>1 DEF SoundE
<1>3. SoundE(n, more)
  BY <1>1, <1>2 DEF SoundE
<1>4. HeldE(more) = HeldE(e) \cup Packets(main)
  <2>1. ASSUME NEW p \in HeldE(more)
        PROVE  p \in HeldE(e) \cup Packets(main)
    <3>1. PICK j \in DOMAIN more : p \in Packets(more[j])
      BY <2>1 DEF HeldE
    <3> QED
      BY <3>1, <1>1 DEF HeldE
  <2>2. ASSUME NEW p \in HeldE(e)
        PROVE  p \in HeldE(more)
    <3>1. PICK j \in DOMAIN e : p \in Packets(e[j])
      BY <2>2 DEF HeldE
    <3>2. CASE j = k
      BY <3>1, <3>2, <1>1 DEF HeldE
    <3>3. CASE j # k
      <4>1. j \in DOMAIN more /\ more[j] = e[j]
        BY <3>1, <3>3, <1>1
      <4> QED
        BY <3>1, <4>1 DEF HeldE
    <3> QED
      BY <3>2, <3>3
  <2>3. Packets(main) \subseteq HeldE(more)
    BY <1>1 DEF HeldE
  <2> QED
    BY <2>1, <2>2, <2>3
<1> QED
  BY <1>3, <1>4

-----------------------------------------------------------------------------
(* A packet arrives                                                        *)

(* addNodeToBeExecuted: every entry of c's node has data at c's input, and *)
(* the key of the new entry, the number of entries there are, is taken.    *)
Overwrites(q, c) ==
  /\ NumberOfInputs(c.to) > 1
  /\ LET entries == EntriesOf(q.w, c.to)
     IN  /\ \A j \in DOMAIN entries : HasData(entries[j], c.in)
         /\ Cardinality(DOMAIN entries) \in DOMAIN entries

(* f is main but for input i, which holds data.                            *)
Refilled(f, main, i, data) ==
  /\ f \in Seq(Data) /\ Len(f) = Len(main) /\ f[i + 1] = data
  /\ \A j \in 1..Len(main) : j # i + 1 => f[j] = main[j]

(* Fill replaces what the input held.                                      *)
LEMMA FillReplaces ==
  ASSUME NEW main \in Seq(Data), NEW i \in Nat, i < Len(main), NEW data \in Data
  PROVE  Refilled(Fill(main, i, data), main, i, data)
<1> DEFINE f == Fill(main, i, data)
<1>1. Len(main) \in Nat /\ DOMAIN main = 1..Len(main)
  OBVIOUS
<1>2. Largest({Len(main), i + 1}) = Len(main)
  BY <1>1, LargestOfTwo
<1>3. f = [j \in 1..Len(main) |-> IF j = i + 1 THEN data ELSE IF j \in DOMAIN main THEN main[j] ELSE Hole]
  BY <1>2 DEF Fill
<1>4. i + 1 \in 1..Len(main)
  BY <1>1
<1>5. f = [j \in 1..Len(main) |-> IF j = i + 1 THEN data ELSE main[j]]
  BY <1>1, <1>3
<1>6. \A j \in 1..Len(main) : main[j] \in Data
  OBVIOUS
<1>7. f \in [1..Len(main) -> Data]
  BY <1>5, <1>6
<1>8. f \in Seq(Data) /\ Len(f) = Len(main)
  BY <1>1, <1>7
<1> QED
  BY <1>4, <1>5, <1>8 DEF Refilled

(* A packet fills an input that has received nothing.                      *)
LEMMA FillFits ==
  ASSUME NEW n, NEW main \in Seq(Data), Fits(n, main), NEW i \in Nat, i < Len(main),
         main[i + 1] \in {Null, Hole}, NEW p, Arrived(p, n, i + 1), NEW f, f = Fill(main, i, p)
  PROVE  Fits(n, f) /\ Packets(f) = Packets(main) \cup {p}
<1>1. p \in Packet /\ p \in Data
  BY DEF Arrived, Data
<1>2. /\ f \in Seq(Data) /\ Len(f) = Len(main) /\ f[i + 1] = p
      /\ \A j \in 1..Len(main) : j # i + 1 => f[j] = main[j]
  BY <1>1, FillReplaces DEF Refilled
<1>3. Fits(n, f)
  BY <1>2 DEF Fits
<1>4. Len(main) \in Nat /\ i + 1 \in 1..Len(main)
  OBVIOUS
<1>5. Packets(f) = {f[j] : j \in 1..Len(main)} \ {Null, Hole, Empty, Call}
  BY <1>2, PacketsOf, SetOf
<1>6. Packets(main) = {main[j] : j \in 1..Len(main)} \ {Null, Hole, Empty, Call}
  BY PacketsOf, SetOf
<1>7. ASSUME NEW x \in Packets(f)
      PROVE  x \in Packets(main) \cup {p}
  BY <1>2, <1>5, <1>6
<1>8. ASSUME NEW x \in Packets(main)
      PROVE  x \in Packets(f)
  <2>1. PICK j \in 1..Len(main) : main[j] = x /\ x \notin {Null, Hole, Empty, Call}
    BY <1>6
  <2>2. j # i + 1
    BY <2>1
  <2> QED
    BY <2>1, <2>2, <1>2, <1>5
<1>9. p \in Packets(f)
  BY <1>1, <1>2, <1>4, <1>5, Unmarked
<1> QED
  BY <1>3, <1>7, <1>8, <1>9

(* No main connection leads to a tool, or from one.                        *)
LEMMA NoConnectionOfTools ==
  ASSUME wf \in Workflows, NEW c \in MainConns
  PROVE  c.to \notin Tools /\ c.from \notin Tools
BY TheWorkflow DEF IsWorkflow, MainConns, Conns, Tools

(* The item that holds what n has received                                 *)
LEMMA ItemIsLawful ==
  ASSUME NEW n \in Node, n \notin Tools, NEW main \in Seq(Data), Fits(n, main), Packets(main) # {}
  PROVE  /\ Item(n, main) \in Items /\ Lawful(Item(n, main))
         /\ Item(n, main).main = main /\ Item(n, main).node = n
<1>1. Item(n, main).main = main /\ Item(n, main).node = n
  BY DEF Item, ItemOf
<1>2. <<>> \in Seq(Task)
  BY EmptyList
<1>3. Item(n, main) \in Items
  BY <1>2 DEF Item, ItemOf, Items
<1> QED
  BY <1>1, <1>3 DEF Lawful

(* addNodeToBeExecuted takes the entry under k, which holds old, for data  *)
(* that comes over c.                                                      *)
Takes(entries, k, old, c) ==
  LET lacking == {j \in DOMAIN entries : ~HasData(entries[j], c.in)}
  IN  /\ k = IF lacking # {} THEN Least(lacking) ELSE Cardinality(DOMAIN entries)
      /\ old = IF lacking # {} THEN entries[k] ELSE [i \in 1 .. NumberOfInputs(c.to) |-> Null]

(* That entry has no data at this input, and holds what is held under k.   *)
Lacks(entries, k, old, c) ==
  /\ k \in Nat /\ old \in Seq(Data) /\ Fits(c.to, old) /\ Empty \notin ToSet(old)
  /\ Len(old) = NumberOfInputs(c.to) /\ old[c.in + 1] \in {Null, Hole}
  /\ Packets(old) = IF k \in DOMAIN entries THEN Packets(entries[k]) ELSE {}
  /\ k \notin DOMAIN entries => \A i \in 1..NumberOfInputs(c.to) : old[i] = Null

(* The data goes to an entry without data at this input, with what that    *)
(* entry holds, or to an empty one.                                        *)
LEMMA EntryChosen ==
  ASSUME wf \in Workflows, NEW q, q.w \in Seq(Waits), NEW c \in MainConns, NumberOfInputs(c.to) > 1,
         ~Overwrites(q, c), NEW entries, entries = EntriesOf(q.w, c.to), SoundE(c.to, entries),
         NEW k, NEW old, Takes(entries, k, old, c)
  PROVE  Lacks(entries, k, old, c)
<1> DEFINE lacking == {j \in DOMAIN entries : ~HasData(entries[j], c.in)}
<1>0. /\ k = IF lacking # {} THEN Least(lacking) ELSE Cardinality(DOMAIN entries)
      /\ old = IF lacking # {} THEN entries[k] ELSE [i \in 1 .. NumberOfInputs(c.to) |-> Null]
  BY DEF Takes
<1>1. c.in \in Nat /\ c.in < NumberOfInputs(c.to) /\ NumberOfInputs(c.to) \in Nat
  BY Connections, InputsBound DEF Connection
<1>2. /\ IsFiniteSet(DOMAIN entries) /\ DOMAIN entries \in SUBSET Nat
      /\ \A j \in DOMAIN entries : entries[j] \in Seq(Data) /\ Partial(c.to, entries[j])
  BY EntriesKnown
<1>3. CASE lacking # {}
  <2>1. k \in lacking
    <3>1. lacking \in SUBSET Nat
      BY <1>2
    <3> QED
      BY <1>0, <1>3, <3>1, LeastNatural DEF Least
  <2>2. k \in DOMAIN entries /\ ~HasData(entries[k], c.in) /\ old = entries[k]
    BY <1>0, <1>3, <2>1
  <2>3. old \in Seq(Data) /\ Partial(c.to, old) /\ Fits(c.to, old)
    BY <1>2, <2>2 DEF SoundE
  <2>4. Len(old) = NumberOfInputs(c.to) /\ Empty \notin ToSet(old)
    BY <2>3 DEF Partial
  <2>5. c.in + 1 \in DOMAIN old
    BY <1>1, <2>3, <2>4
  <2>6. old[c.in + 1] \in {Null, Hole}
    BY <2>2, <2>5 DEF HasData
  <2> QED
    BY <1>2, <2>2, <2>3, <2>4, <2>6 DEF Lacks
<1>4. CASE lacking = {}
  <2>1. k = Cardinality(DOMAIN entries) /\ old = [i \in 1 .. NumberOfInputs(c.to) |-> Null]
    BY <1>0, <1>4
  <2>2. k \notin DOMAIN entries
    BY <1>4, <2>1 DEF Overwrites
  <2>3. k \in Nat
    BY <1>2, <2>1, FS_CardinalityType
  <2>4. Null \in Data /\ Null # Empty
    BY Unmarked DEF Data, Markers
  <2>5. old \in Seq(Data) /\ Len(old) = NumberOfInputs(c.to) /\ \A i \in 1..Len(old) : old[i] = Null
    <3>1. PICK N \in Nat : N = NumberOfInputs(c.to)
      BY <1>1
    <3>2. old = [i \in 1..N |-> Null]
      BY <2>1, <3>1
    <3>3. old \in [1..N -> Data] /\ \A i \in 1..N : old[i] = Null
      BY <2>4, <3>2
    <3>4. old \in Seq(Data) /\ Len(old) = N
      BY <3>1, <3>2, <3>3
    <3> QED
      BY <3>1, <3>3, <3>4
  <2>6. PICK m \in Seq(Data) : m = old
    BY <2>5
  <2>7. Packets(old) = {} /\ Empty \notin ToSet(old)
    <3>1. ToSet(m) \subseteq {Null}
      BY <2>5, <2>6, SetOf
    <3> QED
      BY <2>4, <2>6, <3>1, PacketsOf
  <2>8. Fits(c.to, old)
    BY <2>5 DEF Fits
  <2>9. c.in + 1 \in 1..Len(old)
    BY <1>1, <2>5
  <2> QED
    BY <2>2, <2>3, <2>5, <2>7, <2>8, <2>9 DEF Lacks
<1> QED
  BY <1>3, <1>4

(* x is the first item in line l, before those of s.                       *)
First(l, x, s) == l = <<x>> \o s

(* Every input of x has received something.                                *)
Full(x) ==
  /\ Len(x.main) = NumberOfInputs(x.node)
  /\ \A i \in 1..Len(x.main) : Arrived(x.main[i], x.node, i)

(* What comes over c waits in an entry of c's node.                        *)
Rests(q, r, c) ==
  \E k, old, more :
    /\ Takes(EntriesOf(q.w, c.to), k, old, c)
    /\ DOMAIN more = DOMAIN EntriesOf(q.w, c.to) \cup {k}
    /\ r.s = q.s /\ Replaced(r.w, q.w, c.to, more)

(* It completes an item of c's node.                                       *)
Joins(q, r, c) ==
  \E x \in Items :
    /\ x.node = c.to /\ Full(x) /\ First(r.s, x, q.s)
    /\ \/ NumberOfInputs(c.to) <= 1 /\ r.w = q.w
       \/ /\ NumberOfInputs(c.to) > 1
          /\ \E k, old : /\ Takes(EntriesOf(q.w, c.to), k, old, c) /\ k \in DOMAIN EntriesOf(q.w, c.to)
                         /\ Replaced(r.w, q.w, c.to, Without(EntriesOf(q.w, c.to), k))

(* addNodeToBeExecuted puts the packet into an item or leaves it waiting,  *)
(* and every other packet stays, if it does not overwrite an entry.        *)
LEMMA PacketAdded ==
  ASSUME wf \in Workflows, NEW s \in Seq(Items), NEW q \in Grown(s), Sound(q.s, q.w), NEW c \in MainConns,
         NEW packet \in Packet, packet.conn = c, packet \notin Held(q.s, q.w), ~Overwrites(q, c),
         NEW r, r = AddNodeToBeExecuted(q, c, packet)
  PROVE  /\ Sound(r.s, r.w) /\ Held(r.s, r.w) = Held(q.s, q.w) \cup {packet}
         /\ (NumberOfInputs(c.to) > 1 /\ Rests(q, r, c)) \/ Joins(q, r, c)
<1>1. c \in Connection /\ c.to \in Node /\ c.in \in Nat /\ c.in < NumberOfInputs(c.to) /\ NumberOfInputs(c.to) \in Nat
  BY Connections, InputsBound DEF Connection
<1>2. q \in [s : Seq(Items), w : Seq(Waits)] /\ q.s \in Seq(Items) /\ q.w \in Seq(Waits)
  BY DEF Grown
<1>3. Arrived(packet, c.to, c.in + 1)
  BY <1>1 DEF Arrived
<1>4. c.to \notin Tools
  BY NoConnectionOfTools
<1>5. packet \in Data
  BY DEF Data
<1>6. CASE NumberOfInputs(c.to) <= 1
  <2> DEFINE none == [i \in 1 .. c.in |-> Null]
             main == Fill(none, c.in, packet)
             x    == Item(c.to, main)
  <2>1. r = [q EXCEPT !.s = <<x>> \o @]
    BY <1>6 DEF AddNodeToBeExecuted
  <2>2. none = <<>> /\ c.in = 0
    BY <1>1, <1>6
  <2>3. main \in Seq(Data) /\ Len(main) = 1 /\ main[1] = packet
    <3>1. PICK z \in Nat : z = 0
      OBVIOUS
    <3>2. none \in Seq(Data) /\ Len(none) = z
      BY <2>2, <3>1, EmptyList
    <3> HIDE DEF none
    <3>3. Filled(Fill(none, z, packet), none, z, packet)
      BY <3>2, <1>5, FillDoes
    <3> QED
      BY <2>2, <3>1, <3>2, <3>3 DEF Filled
  <2> HIDE DEF main
  <2>4. Fits(c.to, main)
    BY <1>3, <2>2, <2>3 DEF Fits
  <2>5. Packets(main) = {packet}
    <3>1. ToSet(main) = {main[i] : i \in 1..1}
      BY <2>3, SetOf
    <3>2. ToSet(main) = {packet}
      BY <2>3, <3>1
    <3> QED
      BY <2>3, <3>2, PacketsOf, Unmarked
  <2>6. x \in Items /\ Lawful(x) /\ x.main = main
    BY <1>1, <1>4, <2>3, <2>4, <2>5, ItemIsLawful
  <2> HIDE DEF x
  <2>7. PICK t : t = <<x>> \o q.s
    OBVIOUS
  <2>8. r = [s |-> t, w |-> q.w]
    BY <2>1, <2>7, <1>2, StackAndWaiting
  <2>9. Sound(t, q.w) /\ HeldS(t) = Packets(x.main) \cup HeldS(q.s)
    <3>1. Packets(x.main) \cap Held(q.s, q.w) = {}
      BY <2>5, <2>6
    <3> QED
      BY <1>2, <2>6, <2>7, <3>1, OnTop
  <2>10. Joins(q, r, c)
    <3>1. NumberOfInputs(c.to) = 1 /\ Arrived(main[1], c.to, 1)
      BY <1>1, <1>3, <1>6, <2>2, <2>3
    <3>2. x.node = c.to
      BY DEF x, Item, ItemOf
    <3>3. Full(x)
      <4>1. \A i \in 1..Len(main) : i = 1
        BY <2>3
      <4>2. \A i \in 1..Len(main) : Arrived(main[i], c.to, i)
        BY <3>1, <4>1
      <4> QED
        BY <2>3, <2>6, <3>1, <3>2, <4>2 DEF Full
    <3>4. First(r.s, x, q.s) /\ r.w = q.w
      BY <2>7, <2>8 DEF First
    <3> QED
      BY <1>6, <2>6, <3>2, <3>3, <3>4 DEF Joins
  <2> QED
    BY <2>5, <2>6, <2>8, <2>9, <2>10 DEF Held
<1>7. CASE NumberOfInputs(c.to) > 1
  <2> DEFINE entries == EntriesOf(q.w, c.to)
             lacking == {j \in DOMAIN entries : ~HasData(entries[j], c.in)}
             k    == IF lacking # {} THEN Least(lacking) ELSE Cardinality(DOMAIN entries)
             old  == IF lacking # {} THEN entries[k] ELSE [i \in 1 .. NumberOfInputs(c.to) |-> Null]
             main == Fill(old, c.in, packet)
             x    == Item(c.to, main)
  <2>1. r = IF Null \in {main[i] : i \in DOMAIN main}
            THEN [q EXCEPT !.w = SetEntries(@, c.to, With(entries, k, main))]
            ELSE [s |-> <<x>> \o q.s, w |-> SetEntries(q.w, c.to, Without(entries, k))]
    <3>1. ~(NumberOfInputs(c.to) <= 1)
      BY <1>1, <1>7
    <3> QED
      BY <3>1 DEF AddNodeToBeExecuted
  <2>2. /\ entries \in Entries /\ IsFiniteSet(DOMAIN entries)
        /\ \A j \in DOMAIN entries : Partial(c.to, entries[j])
    BY <1>2, EntriesKnown
  <2>3. SoundE(c.to, entries) /\ Once(q.w) /\ HeldS(q.s) \cap HeldW(q.w) = {}
    BY <1>1 DEF Sound
  <2>13. Takes(entries, k, old, c) /\ entries = EntriesOf(q.w, c.to)
    BY DEF Takes
  <2>4. /\ k \in Nat /\ old \in Seq(Data) /\ Fits(c.to, old) /\ Empty \notin ToSet(old)
        /\ Len(old) = NumberOfInputs(c.to) /\ old[c.in + 1] \in {Null, Hole}
        /\ Packets(old) = IF k \in DOMAIN entries THEN Packets(entries[k]) ELSE {}
        /\ k \notin DOMAIN entries => \A i \in 1..NumberOfInputs(c.to) : old[i] = Null
    <3> HIDE DEF entries, lacking, k, old
    <3>1. Lacks(entries, k, old, c)
      BY <1>2, <1>7, <2>3, <2>13, EntryChosen
    <3> QED
      BY <3>1 DEF Lacks
  <2> HIDE DEF entries, k, old
  <2>5. Fits(c.to, main) /\ Packets(main) = Packets(old) \cup {packet}
    BY <1>1, <1>3, <2>4, FillFits
  <2>6. /\ main \in Seq(Data) /\ Len(main) = NumberOfInputs(c.to)
        /\ Null \in ToSet(main) => Partial(c.to, main)
    BY <2>4, FillPartial
  <2>7. k \notin DOMAIN entries => Null \in ToSet(main)
    <3> SUFFICES ASSUME k \notin DOMAIN entries PROVE Null \in ToSet(main)
      OBVIOUS
    <3>1. PICK j \in 1..NumberOfInputs(c.to) : j # c.in + 1
      <4>1. 1 \in 1..NumberOfInputs(c.to) /\ 2 \in 1..NumberOfInputs(c.to)
        BY <1>1, <1>7
      <4>2. 1 # c.in + 1 \/ 2 # c.in + 1
        BY <1>1
      <4> QED
        BY <4>1, <4>2
    <3>2. Refilled(main, old, c.in, packet)
      BY <1>1, <1>5, <2>4, FillReplaces
    <3>3. main[j] = old[j] /\ old[j] = Null
      BY <2>4, <3>1, <3>2 DEF Refilled
    <3> QED
      BY <2>6, <3>1, <3>3, SetOf
  <2> HIDE DEF main
  <2>8. {main[i] : i \in DOMAIN main} = ToSet(main)
    BY <2>6 DEF ToSet
  <2>9. Packets(old) \subseteq HeldE(entries)
    BY <2>4 DEF HeldE
  <2>10. HeldE(entries) \subseteq HeldW(q.w)
    BY <1>1 DEF HeldW, entries
  <2>11. CASE Null \in ToSet(main)
    <3> DEFINE more == With(entries, k, main)
               v == SetEntries(q.w, c.to, more)
    <3>1. more \in Entries /\ DOMAIN more # {} /\ DOMAIN more = DOMAIN entries \cup {k}
      <4>1. DOMAIN more = DOMAIN entries \cup {k}
        BY DEF With
      <4> HIDE DEF more
      <4>2. more = With(entries, k, main)
        BY DEF more
      <4>3. more \in Entries
        BY <2>2, <2>4, <2>6, <2>11, <4>2, WithPartial
      <4> QED
        BY <4>1, <4>3
    <3>2. SoundE(c.to, more) /\ HeldE(more) = HeldE(entries) \cup Packets(main)
      <4>1. Packets(main) \cap HeldE(entries) \subseteq Packets(old)
        BY <2>5, <2>10 DEF Held
      <4>2. /\ k \in DOMAIN entries => Packets(entries[k]) \subseteq Packets(main)
            /\ \A p \in Packets(main) \cap HeldE(entries) : k \in DOMAIN entries /\ p \in Packets(entries[k])
        BY <2>4, <2>5, <4>1
      <4>3. more = With(entries, k, main)
        OBVIOUS
      <4> HIDE DEF more
      <4> QED
        BY <2>3, <2>5, <4>2, <4>3, WithHeld
    <3> HIDE DEF more
    <3>3. Replaced(v, q.w, c.to, more)
      BY <1>1, <1>2, <2>3, <3>1, SetEntriesReplaces
    <3>4. HeldE(more) \cap HeldS(q.s) = {}
      BY <2>3, <2>5, <2>9, <2>10, <3>2 DEF Held
    <3> HIDE DEF v
    <3>5. Sound(q.s, v) /\ HeldW(v) = HeldE(more) \cup (HeldW(q.w) \ HeldE(entries))
      BY <1>1, <1>2, <3>2, <3>3, <3>4, ReplacedSound DEF entries
    <3>6. r = [s |-> q.s, w |-> v]
      BY <2>1, <2>8, <2>11, <1>2, StackAndWaiting DEF more, v
    <3>7. HeldW(v) = HeldW(q.w) \cup {packet}
      BY <2>5, <2>9, <2>10, <3>2, <3>5
    <3>8. Rests(q, r, c)
      <4>1. r.s = q.s /\ r.w = v
        BY <3>6
      <4>2. Takes(EntriesOf(q.w, c.to), k, old, c) /\ DOMAIN more = DOMAIN EntriesOf(q.w, c.to) \cup {k}
        BY <2>13, <3>1
      <4>3. Replaced(r.w, q.w, c.to, more)
        BY <3>3, <4>1
      <4> QED
        BY <4>1, <4>2, <4>3 DEF Rests
    <3> QED
      BY <1>7, <3>5, <3>6, <3>7, <3>8 DEF Held
  <2>12. CASE Null \notin ToSet(main)
    <3> DEFINE less == Without(entries, k)
               v == SetEntries(q.w, c.to, less)
    <3>1. k \in DOMAIN entries /\ Packets(old) = Packets(entries[k])
      BY <2>4, <2>7, <2>12
    <3>2. less \in Entries
      BY <2>2, WithoutPartial
    <3>3. SoundE(c.to, less) /\ HeldE(less) = HeldE(entries) \ Packets(old)
      BY <2>3, <3>1, WithoutHeld
    <3> HIDE DEF less
    <3>4. c.to \in NodesOf(q.w)
      <4>1. entries # <<>>
        BY <3>1
      <4> QED
        BY <4>1 DEF entries, EntriesOf, NodesOf
    <3>5. Replaced(v, q.w, c.to, less)
      BY <1>1, <1>2, <2>3, <3>2, <3>4, SetEntriesReplaces
    <3>6. HeldE(less) \cap HeldS(q.s) = {}
      BY <2>3, <2>10, <3>3
    <3> HIDE DEF v
    <3>7. Sound(q.s, v) /\ HeldW(v) = HeldE(less) \cup (HeldW(q.w) \ HeldE(entries))
      BY <1>1, <1>2, <3>3, <3>5, <3>6, ReplacedSound DEF entries
    <3>8. HeldW(v) = HeldW(q.w) \ Packets(old)
      BY <2>9, <2>10, <3>3, <3>7
    <3>9. x \in Items /\ Lawful(x) /\ x.main = main /\ x.node = c.to
      <4>1. x.node = c.to
        BY DEF Item, ItemOf
      <4> QED
        BY <1>1, <1>4, <2>5, <2>6, <4>1, ItemIsLawful
    <3> HIDE DEF x
    <3>10. Packets(main) \cap Held(q.s, v) = {}
      BY <2>3, <2>5, <2>9, <2>10, <3>8 DEF Held
    <3>11. PICK t : t = <<x>> \o q.s
      OBVIOUS
    <3>12. Sound(t, v) /\ HeldS(t) = Packets(main) \cup HeldS(q.s)
      BY <1>2, <3>7, <3>9, <3>10, <3>11, OnTop
    <3>13. r = [s |-> t, w |-> v]
      BY <2>1, <2>8, <2>12, <3>11 DEF less, v
    <3>14. Held(t, v) = Held(q.s, q.w) \cup {packet}
      BY <2>5, <2>9, <2>10, <3>8, <3>12 DEF Held
    <3>15. Full(x)
      <4>1. Refilled(main, old, c.in, packet)
        BY <1>1, <1>5, <2>4, FillReplaces DEF main
      <4>2. \A i \in 1..Len(old) : old[i] # Empty
        BY <2>4, SetOf
      <4>3. \A i \in 1..Len(main) : main[i] # Null
        BY <2>6, <2>12, SetOf
      <4>4. packet # Empty
        BY Unmarked
      <4>5. \A i \in 1..Len(main) : main[i] # Empty
        BY <1>1, <4>1, <4>2, <4>4 DEF Refilled
      <4>6. \A i \in 1..Len(main) : Arrived(main[i], c.to, i)
        BY <2>5, <4>3, <4>5 DEF Fits
      <4> QED
        BY <2>6, <3>9, <4>6 DEF Full
    <3>16. First(r.s, x, q.s) /\ r.w = v
      BY <3>11, <3>13 DEF First
    <3>17. Joins(q, r, c)
      BY <1>7, <2>13, <3>1, <3>5, <3>9, <3>15, <3>16 DEF Joins, less
    <3> QED
      BY <3>12, <3>13, <3>14, <3>17
  <2> QED
    BY <2>11, <2>12
<1> QED
  BY <1>1, <1>6, <1>7

-----------------------------------------------------------------------------
(* The children of a node, and the look at what waits                      *)

(* What a run of n puts on the connections of these outputs                *)
NewPackets(n, outs, run) ==
  {[conn |-> c, run |-> run] : c \in {d \in MainConns : d.from = n /\ d.out \in outs}}

(* No connection is there twice.                                           *)
ConnectionsDiffer == \A i, j \in DOMAIN wf.conns : wf.conns[i] = wf.conns[j] => i = j

(* One of these children overwrites an entry.                              *)
ChildrenOverwrite(n, outs, run, s) ==
  LET follow == ConnectionsToFollow(n, outs)
  IN  \E k \in 1..Len(follow) :
        Overwrites(AddingChildren(n, outs, run, s)[k - 1], wf.conns[follow[k]])

(* What a run sends over the first m of these connections                  *)
SentOver(follow, run, m) == {[conn |-> wf.conns[follow[k]], run |-> run] : k \in 1..m}

(* The first m children overwrite no entry.                                *)
Spared(g, follow, m) == \A k \in 1..m : ~Overwrites(g[k - 1], wf.conns[follow[k]])

(* What there is after the first m children, if they overwrite no entry.   *)
LEMMA FirstAdded ==
  ASSUME wf \in Workflows, waiting \in Seq(Waits), ConnectionsDiffer, NEW s \in Seq(Items),
         Sound(s, waiting), NEW n, NEW outs, NEW run \in Nat,
         Held(s, waiting) \cap NewPackets(n, outs, run) = {},
         NEW follow, follow = ConnectionsToFollow(n, outs), NEW g, g = AddingChildren(n, outs, run, s),
         NEW m \in 0..Len(follow), Spared(g, follow, m)
  PROVE  /\ Sound(g[m].s, g[m].w)
         /\ Held(g[m].s, g[m].w) = Held(s, waiting) \cup SentOver(follow, run, m)
<1> DEFINE conn(k) == wf.conns[follow[k]]
           packet(k) == [conn |-> conn(k), run |-> run]
           first(k) == {packet(j) : j \in 1..k}
<1>1. /\ Len(follow) \in Nat /\ m \in Nat /\ 1..m \subseteq 1..Len(follow) /\ 0..m \subseteq 0..Len(follow)
      /\ g[0] = [s |-> s, w |-> waiting]
      /\ \A k \in 1..Len(follow) : g[k] = AddNodeToBeExecuted(g[k - 1], conn(k), packet(k))
      /\ \A k \in 0..Len(follow) : g[k] \in Grown(s)
  <2>1. /\ Len(follow) \in Nat /\ g[0] = [s |-> s, w |-> waiting]
        /\ \A k \in 1..Len(follow) :
             g[k] = AddNodeToBeExecuted(g[k - 1], wf.conns[follow[k]],
                                        [conn |-> wf.conns[follow[k]], run |-> run])
        /\ \A k \in 0..Len(follow) : g[k] \in Grown(s)
    BY AddingUnfolds
  <2>2. m \in Nat /\ 1..m \subseteq 1..Len(follow) /\ 0..m \subseteq 0..Len(follow)
    BY <2>1
  <2> QED
    BY <2>1, <2>2
<1>2. /\ follow \in Seq(DOMAIN wf.conns) /\ Distinct(follow)
      /\ \A k \in 1..Len(follow) : conn(k) \in MainConns /\ conn(k).from = n /\ conn(k).out \in outs
  BY FollowsConnections
<1>3. \A j, k \in 1..Len(follow) : conn(j) = conn(k) => j = k
  BY <1>2 DEF Distinct, ConnectionsDiffer
<1>4. \A k \in 1..Len(follow) :
        packet(k) \in Packet /\ packet(k).conn = conn(k) /\ packet(k) \in NewPackets(n, outs, run)
  <2>1. \A k \in 1..Len(follow) : conn(k) \in Connection
    BY <1>2, Connections
  <2> QED
    BY <1>2, <2>1 DEF Packet, NewPackets
<1> DEFINE Good == {k \in 0..m : Sound(g[k].s, g[k].w) /\ Held(g[k].s, g[k].w) = Held(s, waiting) \cup first(k)}
<1>5. 0 \in Good
  <2>1. first(0) = {}
    OBVIOUS
  <2>2. g[0].s = s /\ g[0].w = waiting /\ 0 \in 0..m
    BY <1>1
  <2> QED
    BY <2>1, <2>2
<1>6. \A k \in 1..m : ~Overwrites(g[k - 1], conn(k))
  BY DEF Spared
<1> HIDE DEF packet, conn
<1>7. ASSUME NEW k \in 1..m, k - 1 \in Good
       PROVE  k \in Good
  <2>1. k - 1 \in 0..m /\ k \in 0..m /\ k \in 1..Len(follow) /\ k - 1 \in 0..Len(follow)
    BY <1>1
  <2>2. /\ g[k - 1] \in Grown(s) /\ Sound(g[k - 1].s, g[k - 1].w)
        /\ Held(g[k - 1].s, g[k - 1].w) = Held(s, waiting) \cup first(k - 1)
    BY <1>1, <1>7, <2>1
  <2>3. packet(k) \notin first(k - 1)
    <3> SUFFICES ASSUME NEW j \in 1..(k - 1), packet(j) = packet(k) PROVE FALSE
      OBVIOUS
    <3>1. j \in 1..Len(follow) /\ j # k
      BY <1>1
    <3> QED
      BY <1>3, <1>4, <2>1, <3>1
  <2>4. packet(k) \notin Held(g[k - 1].s, g[k - 1].w)
    BY <1>4, <2>1, <2>2, <2>3
  <2>5. PICK p \in Packet : p = packet(k)
    BY <1>4, <2>1
  <2>6. PICK c \in MainConns : c = conn(k)
    BY <1>2, <2>1 DEF conn
  <2>7. PICK a \in Grown(s) : a = g[k - 1]
    BY <2>2
  <2>8. g[k] = AddNodeToBeExecuted(a, c, p) /\ p.conn = c /\ p \notin Held(a.s, a.w) /\ ~Overwrites(a, c)
    BY <1>1, <1>4, <1>6, <2>1, <2>4, <2>5, <2>6, <2>7
  <2>9. Sound(g[k].s, g[k].w) /\ Held(g[k].s, g[k].w) = Held(a.s, a.w) \cup {p}
    <3>1. PICK r : r = g[k]
      OBVIOUS
    <3>2. Sound(a.s, a.w) /\ r = AddNodeToBeExecuted(a, c, p)
      BY <2>2, <2>7, <2>8, <3>1
    <3>3. Sound(r.s, r.w) /\ Held(r.s, r.w) = Held(a.s, a.w) \cup {p}
      BY <2>8, <3>2, PacketAdded
    <3> QED
      BY <3>1, <3>3
  <2>10. first(k) = first(k - 1) \cup {packet(k)}
    <3>1. 1..k = 1..(k - 1) \cup {k}
      BY <1>1
    <3> QED
      BY <3>1
  <2> QED
    BY <2>1, <2>2, <2>5, <2>7, <2>9, <2>10
<1>8. 0..m \subseteq Good
  <2> HIDE DEF Good
  <2> QED
    BY <1>1, <1>5, <1>7, UpTo
<1>9. m \in Good
  <2>1. m \in 0..m
    BY <1>1
  <2> HIDE DEF Good
  <2> QED
    BY <1>8, <2>1
<1> QED
  BY <1>9 DEF packet, conn, SentOver

(* Every child gets its packet.                                            *)
LEMMA ChildrenAdded ==
  ASSUME wf \in Workflows, waiting \in Seq(Waits), ConnectionsDiffer, NEW s \in Seq(Items),
         Sound(s, waiting), NEW n, NEW outs, NEW run \in Nat, ~ChildrenOverwrite(n, outs, run, s),
         Held(s, waiting) \cap NewPackets(n, outs, run) = {},
         NEW q, q = AddChildren(n, outs, run, s)
  PROVE  /\ q \in Grown(s) /\ Sound(q.s, q.w)
         /\ Held(q.s, q.w) = Held(s, waiting) \cup NewPackets(n, outs, run)
<1>1. PICK follow : follow = ConnectionsToFollow(n, outs)
  OBVIOUS
<1>2. PICK g : g = AddingChildren(n, outs, run, s)
  OBVIOUS
<1>3. PICK m : m = Len(follow)
  OBVIOUS
<1>4. q = g[m]
  BY <1>1, <1>2, <1>3 DEF AddChildren
<1>5. m \in Nat /\ m \in 0..m /\ \A k \in 0..m : g[k] \in Grown(s)
  <2>1. Len(follow) \in Nat /\ \A k \in 0..Len(follow) : g[k] \in Grown(s)
    BY <1>1, <1>2, AddingUnfolds
  <2> QED
    BY <1>3, <2>1
<1>6. Spared(g, follow, m)
  BY <1>1, <1>2, <1>3 DEF ChildrenOverwrite, Spared
<1>7. /\ Sound(g[m].s, g[m].w)
      /\ Held(g[m].s, g[m].w) = Held(s, waiting) \cup SentOver(follow, run, m)
  <2>1. m \in 0..Len(follow)
    BY <1>3, <1>5
  <2> QED
    BY <1>1, <1>2, <1>6, <2>1, FirstAdded
<1>8. NewPackets(n, outs, run) = SentOver(follow, run, m)
  <2>1. /\ \A k \in 1..m : wf.conns[follow[k]] \in MainConns /\ wf.conns[follow[k]].from = n
                           /\ wf.conns[follow[k]].out \in outs
        /\ \A c \in MainConns : c.from = n /\ c.out \in outs => \E k \in 1..m : wf.conns[follow[k]] = c
    <3>1. /\ \A k \in 1..Len(follow) : /\ wf.conns[follow[k]] \in MainConns
                                       /\ wf.conns[follow[k]].from = n /\ wf.conns[follow[k]].out \in outs
          /\ \A c \in MainConns :
               c.from = n /\ c.out \in outs => \E k \in 1..Len(follow) : wf.conns[follow[k]] = c
      BY <1>1, FollowsConnections
    <3> QED
      BY <1>3, <3>1
  <2> QED
    BY <2>1 DEF NewPackets, SentOver
<1> QED
  BY <1>4, <1>5, <1>7, <1>8

(* What is released holds the packets that waited, and Empty elsewhere.    *)
LEMMA GivenUp ==
  ASSUME NEW n, NEW data \in Seq(Data), Fits(n, data), NEW main,
         main = [i \in 1..Len(data) |-> IF data[i] = Null THEN Empty ELSE data[i]]
  PROVE  main \in Seq(Data) /\ Fits(n, main) /\ Packets(main) = Packets(data)
<1>1. Len(data) \in Nat /\ \A i \in 1..Len(data) : data[i] \in Data
  OBVIOUS
<1>2. Empty \in Data
  BY DEF Data, Markers
<1>3. main \in [1..Len(data) -> Data]
  BY <1>1, <1>2
<1>4. main \in Seq(Data) /\ Len(main) = Len(data)
  BY <1>1, <1>3
<1>5. \A i \in 1..Len(data) : main[i] = IF data[i] = Null THEN Empty ELSE data[i]
  OBVIOUS
<1>6. Fits(n, main)
  BY <1>4, <1>5 DEF Fits
<1>7. Packets(data) = {data[i] : i \in 1..Len(data)} \ {Null, Hole, Empty, Call}
  BY PacketsOf, SetOf
<1>8. Packets(main) = {main[i] : i \in 1..Len(data)} \ {Null, Hole, Empty, Call}
  <2>1. PICK m \in Seq(Data) : m = main
    BY <1>4
  <2>2. Packets(m) = {m[i] : i \in 1..Len(m)} \ {Null, Hole, Empty, Call}
    BY PacketsOf, SetOf
  <2> QED
    BY <1>4, <2>1, <2>2
<1>9. Packets(main) = Packets(data)
  BY <1>5, <1>7, <1>8
<1> QED
  BY <1>4, <1>6, <1>9

(* The look at what waits takes an entry of a node that none of those that *)
(* wait comes before, and executes it.                                     *)
Frees(q, r) ==
  \E x \in Items :
    /\ q.s = <<>> /\ r.s = <<x>>
    /\ x.node \in NodesOf(q.w) /\ ParentNodes(x.node) \cap NodesOf(q.w) = {}
    /\ \E k \in DOMAIN EntriesOf(q.w, x.node) :
         Replaced(r.w, q.w, x.node, Without(EntriesOf(q.w, x.node), k))

(* The look at what waits moves packets to the stack and drops none.       *)
LEMMA ReleaseKeeps ==
  ASSUME wf \in Workflows, NEW q \in [s : Seq(Items), w : Seq(Waits)], Sound(q.s, q.w),
         NEW r, r = ExecuteWaiting(q)
  PROVE  /\ Sound(r.s, r.w) /\ Held(r.s, r.w) = Held(q.s, q.w)
         /\ r = q \/ Frees(q, r)
<1> DEFINE ready == {i \in DOMAIN q.w : Ready(q.w, i)}
           x    == q.w[Least(ready)]
           k    == Least(DOMAIN x.entries)
           data == x.entries[k]
           main == [i \in 1 .. Largest({Len(data), NumberOfInputs(x.node)}) |->
                      IF i > Len(data) \/ data[i] = Null THEN Empty ELSE data[i]]
           less == Without(x.entries, k)
           v    == SetEntries(q.w, x.node, less)
<1>1. r = IF q.s # <<>> \/ ready = {} THEN q ELSE [s |-> <<Item(x.node, main)>>, w |-> v]
  BY DEF ExecuteWaiting
<1>2. CASE q.s # <<>> \/ ready = {}
  BY <1>1, <1>2
<1>3. CASE q.s = <<>> /\ ready # {}
  <2>1. q.w \in Seq(Waits) /\ DOMAIN q.w \in SUBSET Nat /\ DOMAIN q.w = 1..Len(q.w)
    OBVIOUS
  <2>2. Least(ready) \in ready
    <3>1. ready \in SUBSET Nat /\ ready # {}
      BY <2>1, <1>3
    <3> HIDE DEF ready
    <3> QED
      BY <3>1, LeastNatural DEF Least
  <2>3. Least(ready) \in DOMAIN q.w /\ ParentNodes(x.node) \cap NodesOf(q.w) = {}
    BY <2>2 DEF Ready, NodesOf
  <2> HIDE DEF ready
  <2>4. x \in Waits
    BY <2>1, <2>3
  <2>5. EntriesOf(q.w, x.node) = x.entries /\ x.node \in NodesOf(q.w)
    BY <2>1, <2>3, EntriesAre DEF Sound, NodesOf
  <2> HIDE DEF x
  <2>6. /\ x.node \in Node /\ x.entries \in Entries /\ DOMAIN x.entries # {} /\ DOMAIN x.entries \in SUBSET Nat
        /\ IsFiniteSet(DOMAIN x.entries) /\ \A j \in DOMAIN x.entries : Partial(x.node, x.entries[j])
    BY <2>4 DEF Waits, Entries
  <2>7. k \in DOMAIN x.entries
    BY <2>6, LeastNatural DEF Least
  <2> HIDE DEF k
  <2>8. SoundE(x.node, x.entries) /\ HeldS(q.s) \cap HeldW(q.w) = {}
    BY <2>5, <2>6 DEF Sound
  <2>9. data \in Seq(Data) /\ Len(data) = NumberOfInputs(x.node) /\ Packets(data) # {} /\ Fits(x.node, data)
    BY <2>6, <2>7, <2>8 DEF Partial, SoundE
  <2> HIDE DEF data
  <2>10. main \in Seq(Data) /\ Fits(x.node, main) /\ Packets(main) = Packets(data)
    <3>1. Len(data) \in Nat
      BY <2>9
    <3>2. Largest({Len(data), NumberOfInputs(x.node)}) = Len(data)
      BY <2>9, <3>1, LargestOfTwo
    <3>3. main = [i \in 1..Len(data) |-> IF data[i] = Null THEN Empty ELSE data[i]]
      <4>1. \A i \in 1..Len(data) : ~(i > Len(data))
        BY <3>1
      <4> QED
        BY <3>2, <4>1
    <3> HIDE DEF main
    <3> QED
      BY <2>9, <3>3, GivenUp
  <2> HIDE DEF main
  <2>11. x.node \notin Tools
    <3>1. PICK p \in Packets(data) : TRUE
      BY <2>9
    <3>2. p.conn \in MainConns /\ p.conn.to = x.node
      BY <2>9, FitsPackets DEF Arrived
    <3> QED
      BY <3>2, NoConnectionOfTools
  <2>12. less \in Entries
    BY <2>6, WithoutPartial
  <2>13. SoundE(x.node, less) /\ Packets(data) \subseteq HeldE(x.entries) /\ HeldE(less) = HeldE(x.entries) \ Packets(data)
    BY <2>7, <2>8, WithoutHeld DEF data
  <2> HIDE DEF less
  <2>14. HeldE(x.entries) \subseteq HeldW(q.w)
    BY <2>5, <2>6 DEF HeldW
  <2>15. Replaced(v, q.w, x.node, less)
    BY <2>1, <2>5, <2>6, <2>12, SetEntriesReplaces DEF Sound
  <2> HIDE DEF v
  <2>16. Sound(q.s, v) /\ HeldW(v) = HeldE(less) \cup (HeldW(q.w) \ HeldE(x.entries))
    <3>1. HeldE(less) \cap HeldS(q.s) = {}
      BY <2>8, <2>13, <2>14
    <3> QED
      BY <2>1, <2>5, <2>6, <2>13, <2>15, <3>1, ReplacedSound
  <2>17. HeldS(q.s) = {} /\ HeldW(v) = HeldW(q.w) \ Packets(data)
    BY <1>3, <2>13, <2>14, <2>16 DEF HeldS
  <2>18. PICK y \in Items : y = Item(x.node, main) /\ Lawful(y) /\ y.main = main
    BY <2>6, <2>9, <2>10, <2>11, ItemIsLawful
  <2>19. PICK t : t = <<y>>
    OBVIOUS
  <2>20. q.s \in Seq(Items) /\ t = <<y>> \o q.s
    BY <1>3, <2>19
  <2>21. Sound(t, v) /\ HeldS(t) = Packets(main) \cup HeldS(q.s)
    <3>1. Packets(y.main) \cap Held(q.s, v) = {}
      BY <2>10, <2>17, <2>18 DEF Held
    <3>2. PICK l \in Seq(Items) : l = q.s
      BY <2>20
    <3>3. Sound(l, v) /\ Lawful(y) /\ Packets(y.main) \cap Held(l, v) = {} /\ t = <<y>> \o l
      BY <2>16, <2>18, <2>20, <3>1, <3>2
    <3>4. Sound(t, v) /\ HeldS(t) = Packets(y.main) \cup HeldS(l)
      BY <3>3, OnTop
    <3> QED
      BY <2>18, <3>2, <3>4
  <2>22. r = [s |-> t, w |-> v]
    BY <1>1, <1>3, <2>18, <2>19 DEF v
  <2>23. Held(t, v) = Held(q.s, q.w)
    BY <2>10, <2>13, <2>14, <2>17, <2>21 DEF Held
  <2>24. Frees(q, r)
    <3>1. y.node = x.node
      BY <2>18 DEF Item, ItemOf
    <3>2. Replaced(v, q.w, y.node, Without(EntriesOf(q.w, y.node), k)) /\ k \in DOMAIN EntriesOf(q.w, y.node)
      BY <2>5, <2>7, <2>15, <3>1 DEF less
    <3>3. r.s = <<y>> /\ r.w = v
      BY <2>19, <2>22
    <3> QED
      BY <1>3, <2>3, <2>5, <3>1, <3>2, <3>3 DEF Frees
  <2> QED
    BY <2>21, <2>22, <2>23, <2>24
<1> QED
  BY <1>2, <1>3

-----------------------------------------------------------------------------
(* What holds between steps                                                *)

(* The items that are executed or are to be, in order                      *)
LineOf(s, c) == IF c = Null THEN s ELSE <<c>> \o s

(* The head of the stack s has a run in data that is not over; the runs    *)
(* that are over.                                                          *)
RedoneIn(s, data, n) ==
  s # <<>> /\ Head(s).node = n /\ data[n] # <<>> /\ Last(data[n]).main = Head(s).main

RunsIn(s, data) ==
  [n \in Node |-> IF n \in Tools THEN 0
                  ELSE IF RedoneIn(s, data, n) THEN Len(data[n]) - 1 ELSE Len(data[n])]

(* A packet comes from a run that is over, or starts the execution.        *)
Counted(p, runs) == p = Trigger \/ (p \in Packet /\ p.run < runs[p.conn.from])

(* What is held has been produced, and no run that is over has consumed it.*)
History(data, runs, held) ==
  /\ \A p \in held : Counted(p, runs)
  /\ \A n \in Node \ Tools : \A i \in 1..runs[n] :
       /\ Packets(data[n][i].main) \cap held = {}
       /\ \A p \in Packets(data[n][i].main) : Counted(p, runs)

(* An agent that resumes has the run it asked in, and only tools are       *)
(* executed before it.                                                     *)
InTurn(l, runs) ==
  \A i \in 1..Len(l) :
    l[i].node \notin Tools /\ l[i].run # Null =>
      l[i].run = runs[l[i].node] /\ \A j \in 1..(i - 1) : l[j].node \in Tools

(* While the loop runs every run is over.                                  *)
Settled(s, c, data, st) ==
  c # Null \/ st \in {"running", "success"} => \A n \in Node \ Tools : ~RedoneIn(s, data, n)

(* In an execution that waits or failed that of the head is not.           *)
Paused(s, data, st) ==
  st \in {"waiting", "error"} /\ Head(s).node \notin Tools =>
    /\ RedoneIn(s, data, Head(s).node)
    /\ st = "error" => Last(data[Head(s).node]).state = "error"

Flows(s, c, w, data, st) ==
  /\ Sound(LineOf(s, c), w)
  /\ History(data, RunsIn(s, data), Held(LineOf(s, c), w))
  /\ InTurn(LineOf(s, c), RunsIn(s, data))
  /\ Settled(s, c, data, st) /\ Paused(s, data, st)

FlowInv == Flows(stack, current, waiting, runData, status)

(* The trigger is no tool, no connection is there twice, and an agent has  *)
(* one input, of which it keeps the data when it asks.                     *)
WellConnected ==
  /\ wf.trigger \notin Tools
  /\ ConnectionsDiffer
  /\ \A n \in DOMAIN wf.tools \ Tools : NumberOfInputs(n) <= 1

(* Redone and Runs in these terms                                          *)
LEMMA RunsAre == Runs = RunsIn(stack, runData) /\ \A n : Redone(n) <=> RedoneIn(stack, runData, n)
BY DEF Runs, RunsIn, Redone, RedoneIn

(* Flows is about the workflow and these variables only.                   *)
LEMMA FlowsStays ==
  ASSUME UNCHANGED wf, Flows(stack', current', waiting', runData', status')
  PROVE  FlowInv'
<1>1. Tools' = Tools /\ MainConns' = MainConns
  BY SameWorkflow
<1>2. \A l, w : Sound(l, w)' = Sound(l, w)
  BY <1>1 DEF Sound, Lawful, Fits, Arrived, Once, SoundE
<1>3. \A s, data : RunsIn(s, data)' = RunsIn(s, data)
  BY <1>1 DEF RunsIn, RedoneIn
<1>4. \A data, runs, held : History(data, runs, held)' = History(data, runs, held)
  BY <1>1 DEF History, Counted
<1>5. \A l, runs : InTurn(l, runs)' = InTurn(l, runs)
  BY <1>1 DEF InTurn
<1>6. \A s, c, data, st : Settled(s, c, data, st)' = Settled(s, c, data, st)
  BY <1>1 DEF Settled, RedoneIn
<1>7. \A s, data, st : Paused(s, data, st)' = Paused(s, data, st)
  BY <1>1 DEF Paused, RedoneIn
<1> QED
  BY <1>1, <1>2, <1>3, <1>4, <1>5, <1>6, <1>7 DEF FlowInv, Flows

(* InFlight in these terms                                                 *)
LEMMA HeldIsAll ==
  ASSUME NEW s \in Seq(Items), NEW c \in Items \cup {Null}, NEW w \in Seq(Waits), Once(w)
  PROVE  Held(LineOf(s, c), w) =
           (UNION {Packets(x.main) : x \in ToSet(s) \cup ({c} \ {Null})})
           \cup (UNION {UNION {Packets(w[i].entries[k]) : k \in DOMAIN w[i].entries} : i \in DOMAIN w})
<1> DEFINE l == LineOf(s, c)
           all == ToSet(s) \cup ({c} \ {Null})
<1>1. ToSet(s) = {s[i] : i \in 1..Len(s)} /\ Len(s) \in Nat
  BY SetOf
<1>2. {l[i] : i \in 1..Len(l)} = all
  <2>1. CASE c = Null
    BY <1>1, <2>1 DEF LineOf
  <2>2. CASE c # Null
    <3>1. l = <<c>> \o s /\ c \in Items
      BY <2>2 DEF LineOf
    <3>2. Len(l) = Len(s) + 1 /\ l[1] = c
      BY <3>1
    <3>3. \A i \in 1..Len(s) : l[i + 1] = s[i] /\ i + 1 \in 1..Len(l)
      BY <3>1, <1>1
    <3>4. \A i \in 1..Len(l) : i = 1 \/ (i - 1 \in 1..Len(s) /\ l[i] = s[i - 1])
      BY <3>2, <3>3, <1>1
    <3>5. 1 \in 1..Len(l)
      BY <3>2, <1>1
    <3> HIDE DEF l
    <3>6. \A x \in {l[i] : i \in 1..Len(l)} : x = c \/ x \in ToSet(s)
      BY <3>2, <3>4, <1>1
    <3>7. \A x \in ToSet(s) : x \in {l[i] : i \in 1..Len(l)}
      BY <3>3, <1>1
    <3>8. c \in {l[i] : i \in 1..Len(l)}
      BY <3>2, <3>5
    <3> QED
      BY <2>2, <3>6, <3>7, <3>8
  <2> QED
    BY <2>1, <2>2
<1> HIDE DEF l, all
<1>3. HeldS(l) = UNION {Packets(x.main) : x \in all}
  BY <1>2 DEF HeldS
<1>4. \A i \in DOMAIN w : w[i] \in Waits /\ EntriesOf(w, w[i].node) = w[i].entries
  <2>1. DOMAIN w = 1..Len(w) /\ \A i \in DOMAIN w : w[i] \in Waits
    OBVIOUS
  <2> QED
    BY <2>1, EntriesAre
<1>5. HeldW(w) = UNION {HeldE(w[i].entries) : i \in DOMAIN w}
  <2>1. ASSUME NEW p \in HeldW(w)
        PROVE  \E i \in DOMAIN w : p \in HeldE(w[i].entries)
    <3>1. PICK n \in Node : p \in HeldE(EntriesOf(w, n))
      BY <2>1 DEF HeldW
    <3>2. EntriesOf(w, n) # <<>>
      BY <3>1 DEF HeldE
    <3>3. PICK i \in DOMAIN w : w[i].node = n
      BY <3>2 DEF EntriesOf
    <3> QED
      BY <3>1, <3>3, <1>4
  <2>2. ASSUME NEW i \in DOMAIN w, NEW p \in HeldE(w[i].entries)
        PROVE  p \in HeldW(w)
    <3>1. w[i].node \in Node
      BY <1>4 DEF Waits
    <3> QED
      BY <2>2, <3>1, <1>4 DEF HeldW
  <2> QED
    BY <2>1, <2>2
<1>6. {HeldE(w[i].entries) : i \in DOMAIN w}
        = {UNION {Packets(w[i].entries[k]) : k \in DOMAIN w[i].entries} : i \in DOMAIN w}
  BY DEF HeldE
<1>7. Held(l, w) = (UNION {Packets(x.main) : x \in all}) \cup (UNION {HeldE(w[i].entries) : i \in DOMAIN w})
  BY <1>3, <1>5 DEF Held
<1> QED
  BY <1>6, <1>7 DEF l, all

(* What is in flight is what is held, in this state and in the next.       *)
LEMMA InFlightIs ==
  ASSUME Typed, Once(waiting)
  PROVE  InFlight = Held(LineOf(stack, current), waiting)
<1>1. stack \in Seq(Items) /\ current \in Items \cup {Null} /\ waiting \in Seq(Waits)
  BY DEF Typed
<1> QED
  BY <1>1, HeldIsAll DEF InFlight, Outstanding

LEMMA InFlightThen ==
  ASSUME Typed', UNCHANGED wf, Once(waiting')
  PROVE  InFlight' = Held(LineOf(stack', current'), waiting')
<1>1. stack' \in Seq(Items) /\ current' \in Items \cup {Null} /\ waiting' \in Seq(Waits)
  BY SameWorkflow DEF Typed
<1>2. Held(LineOf(stack', current'), waiting') =
        (UNION {Packets(x.main) : x \in ToSet(stack') \cup ({current'} \ {Null})})
        \cup (UNION {UNION {Packets(waiting'[i].entries[k]) : k \in DOMAIN waiting'[i].entries} :
                       i \in DOMAIN waiting'})
  BY <1>1, HeldIsAll
<1> QED
  BY <1>2 DEF InFlight, Outstanding

(* What the first item in line holds is nowhere else.                      *)
LEMMA LineHead ==
  ASSUME NEW x \in Items, NEW s \in Seq(Items), NEW w, NEW l, First(l, x, s), Sound(l, w)
  PROVE  /\ Lawful(x) /\ Sound(s, w)
         /\ Packets(x.main) \cap Held(s, w) = {}
         /\ Held(l, w) = Packets(x.main) \cup Held(s, w)
<1>1. l \in Seq(Items) /\ Len(l) = Len(s) + 1 /\ l[1] = x /\ Len(s) \in Nat /\ 1 \in 1..Len(l)
  BY DEF First
<1>2. \A i \in 1..Len(s) : l[i + 1] = s[i] /\ i + 1 \in 1..Len(l)
  BY DEF First
<1>3. \A i \in 1..Len(l) : i = 1 \/ (i - 1 \in 1..Len(s) /\ l[i] = s[i - 1])
  BY <1>1, <1>2
<1>4. \A i \in 1..Len(l) : Lawful(l[i])
  BY DEF Sound
<1>5. Lawful(x) /\ \A i \in 1..Len(s) : Lawful(s[i])
  BY <1>1, <1>2, <1>4
<1>6. Sound(s, w) /\ HeldS(s) \subseteq HeldS(l)
  <2>1. PICK d \in Int : d = 1
    OBVIOUS
  <2>2. \A i \in 1..Len(s) : i + d \in 1..Len(l) /\ Packets(s[i].main) = Packets(l[i + d].main)
    BY <1>2, <2>1
  <2> QED
    BY <1>1, <1>5, <2>2, Moved
<1>7. HeldS(l) = Packets(x.main) \cup HeldS(s)
  <2>1. ASSUME NEW p \in HeldS(l)
        PROVE  p \in Packets(x.main) \cup HeldS(s)
    <3>1. PICK i \in 1..Len(l) : p \in Packets(l[i].main)
      BY <2>1, InLine
    <3> QED
      BY <1>1, <1>3, <3>1, InLine
  <2>2. Packets(x.main) \subseteq HeldS(l)
    BY <1>1, InLine
  <2> QED
    BY <1>6, <2>1, <2>2
<1>8. Packets(x.main) \cap HeldS(s) = {}
  <2>1. SUFFICES ASSUME NEW p \in HeldS(s), p \in Packets(x.main)
                 PROVE  FALSE
    OBVIOUS
  <2>2. PICK i \in 1..Len(s) : p \in Packets(s[i].main)
    BY <2>1, InLine
  <2>3. i + 1 # 1 /\ i + 1 \in 1..Len(l) /\ l[i + 1] = s[i]
    BY <1>2
  <2>4. Packets(l[1].main) \cap Packets(l[i + 1].main) = {}
    BY <1>1, <2>3 DEF Sound
  <2> QED
    BY <1>1, <2>1, <2>2, <2>3, <2>4
<1>9. HeldS(l) \cap HeldW(w) = {}
  BY DEF Sound
<1> QED
  BY <1>5, <1>6, <1>7, <1>8, <1>9 DEF Held

(* The number of runs, if all are over                                     *)
Ended(data) == [n \in Node |-> IF n \in Tools THEN 0 ELSE Len(data[n])]

LEMMA EndedIs ==
  ASSUME NEW data \in [Node -> Seq(TaskData)]
  PROVE  /\ Ended(data) \in [Node -> Nat]
         /\ \A n \in Node \ Tools : Ended(data)[n] = Len(data[n])
         /\ \A s : (\A n \in Node \ Tools : ~RedoneIn(s, data, n)) => RunsIn(s, data) = Ended(data)
<1>1. \A n \in Node : Len(data[n]) \in Nat
  BY HowLong
<1> QED
  BY <1>1 DEF Ended, RunsIn

(* The head of the stack was not executed last with the data it has, when  *)
(* no run has consumed what is held.                                       *)
LEMMA Unredone ==
  ASSUME NEW s \in Seq(Items), NEW w, Sound(s, w), NEW data \in [Node -> Seq(TaskData)],
         NEW held, HeldS(s) \subseteq held, History(data, Ended(data), held)
  PROVE  (\A n \in Node \ Tools : ~RedoneIn(s, data, n)) /\ RunsIn(s, data) = Ended(data)
<1>1. ASSUME NEW n \in Node \ Tools, RedoneIn(s, data, n)
      PROVE  FALSE
  <2>1. s # <<>> /\ Head(s).node = n /\ data[n] # <<>> /\ Last(data[n]).main = Head(s).main
    BY <1>1 DEF RedoneIn
  <2>2. s[1] = Head(s) /\ 1 \in 1..Len(s) /\ s[1] \in Items
    BY <2>1
  <2>3. PICK x \in Items : x = s[1]
    BY <2>2
  <2>4. Lawful(x) /\ x.node = n
    BY <2>1, <2>2, <2>3 DEF Sound
  <2>5. PICK p \in Packets(x.main) : TRUE
    BY <2>4, LawfulIsConsumable
  <2>6. p \in held
    BY <2>2, <2>3, InLine
  <2>7. Len(data[n]) \in 1..Len(data[n]) /\ Last(data[n]) = data[n][Len(data[n])]
    <3>1. data[n] \in Seq(TaskData)
      OBVIOUS
    <3> QED
      BY <2>1, <3>1 DEF Last
  <2>8. Packets(data[n][Len(data[n])].main) \cap held = {}
    BY <2>7, EndedIs DEF History
  <2> QED
    BY <2>1, <2>2, <2>3, <2>5, <2>6, <2>7, <2>8
<1> QED
  BY <1>1, EndedIs

(* The runs that are over stay, and no more is held.                       *)
LEMMA HistoryKept ==
  ASSUME NEW data, NEW more, NEW runs, NEW held, NEW less \in SUBSET held,
         \A n \in Node \ Tools : \A i \in 1..runs[n] : more[n][i] = data[n][i],
         History(data, runs, held)
  PROVE  History(more, runs, less)
BY DEF History

(* A step that holds and runs the same is no step of Dataflow.             *)
LEMMA Stutters ==
  ASSUME Typed, Typed', UNCHANGED <<wf, filter>>, Once(waiting), Once(waiting'),
         Held(LineOf(stack', current'), waiting') = Held(LineOf(stack, current), waiting),
         RunsIn(stack', runData') = RunsIn(stack, runData)
  PROVE  UNCHANGED Flow!flowVars
<1>1. InFlight' = InFlight
  BY InFlightIs, InFlightThen
<1>2. Tools' = Tools /\ MainConns' = MainConns
  BY SameWorkflow
<1>3. Runs' = RunsIn(stack', runData')
  BY <1>2 DEF Runs, Redone, RunsIn, RedoneIn
<1>4. Runs' = Runs
  BY <1>3, RunsAre
<1>5. (wf.ends \cup (Node \ filter))' = wf.ends \cup (Node \ filter)
  OBVIOUS
<1> QED
  BY <1>1, <1>2, <1>4, <1>5 DEF Flow!flowVars

(* A step of Dataflow, or none                                             *)
FlowStep == Flow!FlowNext \/ UNCHANGED Flow!flowVars

(* x is consumed, and its branch ends.                                     *)
LEMMA BranchEnds ==
  ASSUME Typed, Typed', UNCHANGED <<wf, filter>>, Once(waiting), Once(waiting'),
         NEW x \in Items, Lawful(x), x.node \notin Tools, x.node \in wf.ends \cup (Node \ filter),
         NEW rest, rest = Held(LineOf(stack', current'), waiting'), Packets(x.main) \cap rest = {},
         Held(LineOf(stack, current), waiting) = Packets(x.main) \cup rest,
         RunsIn(stack', runData') = RunsIn(stack, runData)
  PROVE  Flow!FlowNext
<1>1. InFlight = Packets(x.main) \cup rest /\ InFlight' = rest
  BY InFlightIs, InFlightThen
<1>2. Tools' = Tools /\ MainConns' = MainConns
  BY SameWorkflow
<1>3. Runs' = RunsIn(stack', runData')
  BY <1>2 DEF Runs, Redone, RunsIn, RedoneIn
<1>4. Runs' = Runs
  BY <1>3, RunsAre
<1>5. Flow!Consumable(x.node, Packets(x.main)) /\ x.node \in Node
  BY LawfulIsConsumable DEF Items
<1>6. Flow!Taken = Packets(x.main) /\ Flow!Added = {}
  BY <1>1 DEF Flow!Taken, Flow!Added
<1>7. Flow!EndBranch(x.node)
  BY <1>4, <1>5, <1>6 DEF Flow!EndBranch
<1> QED
  BY <1>2, <1>5, <1>7 DEF Flow!FlowNext

(* Node n has run once more.                                               *)
OneMore(more, runs, n) == more = [runs EXCEPT ![n] = @ + 1]

(* x is consumed by a run of its node, which fills these outputs.          *)
LEMMA NodeFires ==
  ASSUME Typed, Typed', UNCHANGED <<wf, filter>>, Once(waiting), Once(waiting'),
         NEW x \in Items, Lawful(x), x.node \notin Tools,
         NEW rest, Packets(x.main) \cap rest = {},
         Held(LineOf(stack, current), waiting) = Packets(x.main) \cup rest,
         NEW outs, NEW new, new = NewPackets(x.node, outs, RunsIn(stack, runData)[x.node]),
         new \cap (Packets(x.main) \cup rest) = {},
         Held(LineOf(stack', current'), waiting') = rest \cup new,
         OneMore(RunsIn(stack', runData'), RunsIn(stack, runData), x.node)
  PROVE  Flow!FlowNext
<1>1. InFlight = Packets(x.main) \cup rest /\ InFlight' = rest \cup new
  BY InFlightIs, InFlightThen
<1>2. Tools' = Tools /\ MainConns' = MainConns
  BY SameWorkflow
<1>3. Runs' = RunsIn(stack', runData')
  BY <1>2 DEF Runs, Redone, RunsIn, RedoneIn
<1>4. Runs' = [Runs EXCEPT ![x.node] = @ + 1]
  BY <1>3, RunsAre DEF OneMore
<1>5. Flow!Consumable(x.node, Packets(x.main)) /\ Packets(x.main) # {} /\ x.node \in Node
  BY LawfulIsConsumable DEF Items
<1>6. Flow!Taken = Packets(x.main) /\ Flow!Added = new
  BY <1>1 DEF Flow!Taken, Flow!Added
<1>7. PICK filled : filled = outs \cap {c.out : c \in MainConns}
  OBVIOUS
<1>8. filled \in SUBSET {c.out : c \in MainConns}
  BY <1>7
<1>9. new = {[conn |-> c, run |-> Runs[x.node]] : c \in {d \in MainConns : d.from = x.node /\ d.out \in filled}}
  <2>1. {d \in MainConns : d.from = x.node /\ d.out \in filled}
          = {d \in MainConns : d.from = x.node /\ d.out \in outs}
    BY <1>7
  <2> QED
    BY <2>1, RunsAre DEF NewPackets
<1>10. Flow!Added = Flow!Produced(x.node, filled)
  BY <1>6, <1>9 DEF Flow!Produced
<1>11. Flow!Fire(x.node)
  BY <1>4, <1>5, <1>6, <1>8, <1>10 DEF Flow!Fire
<1>12. (wf.ends \cup (Node \ filter))' = wf.ends \cup (Node \ filter)
  OBVIOUS
<1> QED
  BY <1>2, <1>5, <1>11, <1>12 DEF Flow!FlowNext

-----------------------------------------------------------------------------
(* The steps                                                               *)

(* Where the executed item is in line                                      *)
LEMMA Executed ==
  ASSUME Typed, FlowInv, current # Null
  PROVE  /\ current \in Items /\ stack \in Seq(Items) /\ First(LineOf(stack, current), current, stack)
         /\ LineOf(stack, current) \in Seq(Items)
         /\ Lawful(current) /\ Sound(stack, waiting) /\ Sound(LineOf(stack, current), waiting)
         /\ Packets(current.main) \cap Held(stack, waiting) = {}
         /\ Held(LineOf(stack, current), waiting) = Packets(current.main) \cup Held(stack, waiting)
         /\ \A n \in Node \ Tools : ~RedoneIn(stack, runData, n)
         /\ RunsIn(stack, runData) = Ended(runData)
         /\ History(runData, Ended(runData), Held(LineOf(stack, current), waiting))
         /\ InTurn(LineOf(stack, current), Ended(runData))
         /\ Once(waiting)
<1>1. current \in Items /\ stack \in Seq(Items) /\ runData \in [Node -> Seq(TaskData)]
  BY DEF Typed
<1>2. PICK l : l = LineOf(stack, current)
  OBVIOUS
<1>3. First(l, current, stack) /\ l \in Seq(Items)
  BY <1>1, <1>2 DEF LineOf, First
<1>4. Sound(l, waiting) /\ Once(waiting)
  BY <1>2 DEF FlowInv, Flows, Sound
<1>5. /\ Lawful(current) /\ Sound(stack, waiting)
      /\ Packets(current.main) \cap Held(stack, waiting) = {}
      /\ Held(l, waiting) = Packets(current.main) \cup Held(stack, waiting)
  BY <1>1, <1>3, <1>4, LineHead
<1>6. \A n \in Node \ Tools : ~RedoneIn(stack, runData, n)
  BY DEF FlowInv, Flows, Settled
<1>7. RunsIn(stack, runData) = Ended(runData)
  BY <1>1, <1>6, EndedIs
<1>8. History(runData, Ended(runData), Held(l, waiting)) /\ InTurn(l, Ended(runData))
  BY <1>2, <1>7 DEF FlowInv, Flows
<1> QED
  BY <1>1, <1>2, <1>3, <1>4, <1>5, <1>6, <1>7, <1>8

(* The rest of the line is in turn, too.                                   *)
LEMMA TailInTurn ==
  ASSUME NEW x \in Items, NEW s \in Seq(Items), NEW l, First(l, x, s), NEW runs, InTurn(l, runs)
  PROVE  /\ InTurn(s, runs)
         /\ x.node \notin Tools => \A i \in 1..Len(s) : s[i].node \in Tools \/ s[i].run = Null
         /\ x.node \notin Tools /\ x.run # Null => x.run = runs[x.node]
<1>1. Len(l) = Len(s) + 1 /\ l[1] = x /\ Len(s) \in Nat /\ 1 \in 1..Len(l)
  BY DEF First
<1>2. \A i \in 1..Len(s) : l[i + 1] = s[i] /\ i + 1 \in 1..Len(l) /\ (i + 1) - 1 = i /\ 1 \in 1..i
  BY DEF First
<1>3. ASSUME NEW i \in 1..Len(s), s[i].node \notin Tools, s[i].run # Null
      PROVE  /\ s[i].run = runs[s[i].node]
             /\ \A j \in 1..i : l[j].node \in Tools
  <2>1. PICK k \in 1..Len(l) : k = i + 1
    BY <1>2
  <2>2. l[k] = s[i] /\ k - 1 = i
    BY <1>2, <2>1
  <2>3. l[k].run = runs[l[k].node] /\ \A j \in 1..(k - 1) : l[j].node \in Tools
    BY <1>3, <2>2 DEF InTurn
  <2> QED
    BY <2>2, <2>3
<1>4. ASSUME NEW i \in 1..Len(s), s[i].node \notin Tools, s[i].run # Null, NEW j \in 1..(i - 1)
      PROVE  s[j].node \in Tools
  <2>1. j \in 1..Len(s) /\ j + 1 \in 1..i
    BY <1>1
  <2>2. l[j + 1].node \in Tools
    BY <1>3, <1>4, <2>1
  <2> QED
    BY <1>2, <2>1, <2>2
<1>5. InTurn(s, runs)
  BY <1>3, <1>4 DEF InTurn
<1>6. x.node \notin Tools => \A i \in 1..Len(s) : s[i].node \in Tools \/ s[i].run = Null
  BY <1>1, <1>2, <1>3
<1>7. x.node \notin Tools /\ x.run # Null => x.run = runs[x.node]
  BY <1>1 DEF InTurn
<1> QED
  BY <1>5, <1>6, <1>7

(* Each item of line t whose node is no tool stands in line l, d further on*)
(* and perhaps with other data.                                            *)
Shifted(t, l) ==
  \E d \in Int : \A i \in 1..Len(t) :
    t[i].node \notin Tools => i + d \in 1..Len(l) /\ t[i].node = l[i + d].node

(* No run ends, none is taken back, and no node gets in line or waits.     *)
NoNodeRuns ==
  /\ RunsIn(stack', runData') = RunsIn(stack, runData) /\ waiting' = waiting
  /\ Shifted(LineOf(stack', current'), LineOf(stack, current))

(* A line stays as it is, or loses its first item.                         *)
LEMMA LineShifts ==
  ASSUME NEW t \in Seq(Items), NEW l \in Seq(Items)
  PROVE  /\ Len(t) = Len(l) /\ (\A i \in 1..Len(l) : t[i].node = l[i].node) => Shifted(t, l)
         /\ \A x : First(l, x, t) => Shifted(t, l)
<1>1. ASSUME Len(t) = Len(l), \A i \in 1..Len(l) : t[i].node = l[i].node
      PROVE  Shifted(t, l)
  <2>1. PICK d \in Int : d = 0
    OBVIOUS
  <2>2. \A i \in 1..Len(t) : i + d \in 1..Len(l) /\ t[i].node = l[i + d].node
    BY <1>1, <2>1
  <2> QED
    BY <2>2 DEF Shifted
<1>2. ASSUME NEW x, First(l, x, t)
      PROVE  Shifted(t, l)
  <2>1. PICK d \in Int : d = 1
    OBVIOUS
  <2>2. \A i \in 1..Len(t) : i + d \in 1..Len(l) /\ t[i] = l[i + d]
    BY <1>2, <2>1 DEF First
  <2> QED
    BY <2>2 DEF Shifted
<1> QED
  BY <1>1, <1>2

(* Nothing that Flows is about changes but the status.                     *)
LEMMA QuietFlows ==
  ASSUME Typed, Typed', Stops, FlowInv, TriesAgain \/ Complete \/ Cancel
  PROVE  FlowInv' /\ FlowStep /\ NoNodeRuns
<1>1. UNCHANGED <<wf, stack, waiting, runData, current, filter>>
  BY DEF TriesAgain, Complete, Cancel
<1>2. status' = status \/ status' \in {"success", "canceled"}
  BY DEF TriesAgain, Complete, Cancel
<1>3. Settled(stack', current', runData', status')
  <2>1. current # Null \/ status = "running"
    BY DEF TriesAgain, Complete, Cancel, Executes, Executing
  <2> QED
    BY <1>1, <2>1 DEF FlowInv, Flows, Settled
<1>4. Paused(stack', runData', status')
  BY <1>1, <1>2 DEF FlowInv, Flows, Paused
<1>5. Flows(stack', current', waiting', runData', status')
  BY <1>1, <1>3, <1>4 DEF FlowInv, Flows
<1>6. UNCHANGED Flow!flowVars
  BY <1>1, Stutters DEF FlowInv, Flows, Sound
<1>7. NoNodeRuns
  <2>1. PICK l : l = LineOf(stack, current)
    OBVIOUS
  <2>2. l \in Seq(Items)
    <3>1. stack \in Seq(Items) /\ current \in Items \cup {Null}
      BY DEF Typed
    <3>2. CASE current = Null
      BY <2>1, <3>1, <3>2 DEF LineOf
    <3>3. CASE current # Null
      BY <2>1, <3>3, Executed
    <3> QED
      BY <3>2, <3>3
  <2>3. LineOf(stack', current') = l
    BY <1>1, <2>1
  <2>4. Shifted(l, l)
    BY <2>2, LineShifts
  <2> QED
    BY <1>1, <2>1, <2>3, <2>4 DEF NoNodeRuns
<1> QED
  BY <1>1, <1>5, <1>6, <1>7, FlowsStays DEF FlowStep

(* The first item in line is dropped.                                      *)
LEMMA DropFlows ==
  ASSUME Typed, Typed', FlowInv, UNCHANGED <<wf, filter, waiting, runData, status>>,
         NEW x \in Items, First(LineOf(stack, current), x, stack'), current' = Null,
         RunsIn(stack, runData) = Ended(runData), status \notin {"waiting", "error"},
         x.node \notin Tools => x.node \in wf.ends \cup (Node \ filter)
  PROVE  FlowInv' /\ FlowStep /\ NoNodeRuns
<1>1. PICK s \in Seq(Items) : s = stack'
  BY DEF Typed
<1>2. PICK l : l = LineOf(stack, current)
  OBVIOUS
<1>3. /\ Lawful(x) /\ Sound(s, waiting)
      /\ Packets(x.main) \cap Held(s, waiting) = {}
      /\ Held(l, waiting) = Packets(x.main) \cup Held(s, waiting)
  BY <1>1, <1>2, LineHead DEF FlowInv, Flows
<1>4. runData \in [Node -> Seq(TaskData)] /\ Once(waiting)
  BY <1>3 DEF Typed, Sound
<1>5. History(runData, Ended(runData), Held(s, waiting))
  <2>1. History(runData, Ended(runData), Held(l, waiting))
    BY <1>2 DEF FlowInv, Flows
  <2> QED
    BY <2>1, <1>3, HistoryKept
<1>6. (\A n \in Node \ Tools : ~RedoneIn(s, runData, n)) /\ RunsIn(s, runData) = Ended(runData)
  <2>1. HeldS(s) \subseteq Held(s, waiting)
    BY DEF Held
  <2> QED
    BY <1>3, <1>4, <1>5, <2>1, Unredone
<1>7. LineOf(stack', current') = s
  BY <1>1 DEF LineOf
<1>8. InTurn(s, Ended(runData))
  <2>1. InTurn(l, Ended(runData))
    BY <1>2 DEF FlowInv, Flows
  <2> QED
    BY <1>1, <1>2, <2>1, TailInTurn
<1>9. Settled(s, Null, runData, status) /\ Paused(s, runData, status)
  BY <1>6 DEF Settled, Paused
<1>10. Flows(stack', current', waiting', runData', status')
  BY <1>1, <1>3, <1>5, <1>6, <1>7, <1>8, <1>9 DEF Flows
<1>11. FlowStep
  <2>1. RunsIn(stack', runData') = RunsIn(stack, runData)
    BY <1>1, <1>6
  <2>2. CASE x.node \in Tools
    <3>1. Packets(x.main) = {}
      BY <1>3, <2>2 DEF Lawful
    <3>2. Held(LineOf(stack', current'), waiting') = Held(LineOf(stack, current), waiting)
      BY <1>2, <1>3, <1>7, <3>1
    <3> QED
      BY <1>4, <2>1, <3>2, Stutters DEF FlowStep
  <2>3. CASE x.node \notin Tools
    <3>1. PICK rest : rest = Held(LineOf(stack', current'), waiting')
      OBVIOUS
    <3>2. rest = Held(s, waiting)
      BY <1>7, <3>1
    <3> QED
      BY <1>2, <1>3, <1>4, <2>1, <2>3, <3>1, <3>2, BranchEnds DEF FlowStep
  <2> QED
    BY <2>2, <2>3
<1>12. NoNodeRuns
  <2>1. RunsIn(stack', runData') = RunsIn(stack, runData)
    BY <1>1, <1>6
  <2>2. l \in Seq(Items)
    <3>1. stack \in Seq(Items) /\ current \in Items \cup {Null}
      BY DEF Typed
    <3>2. CASE current = Null
      BY <1>2, <3>1, <3>2 DEF LineOf
    <3>3. CASE current # Null
      BY <1>2, <3>3, Executed
    <3> QED
      BY <3>1, <3>2, <3>3
  <2>3. Shifted(s, l)
    BY <1>1, <1>2, <2>2, LineShifts
  <2> QED
    BY <1>2, <1>7, <2>1, <2>3 DEF NoNodeRuns
<1> QED
  BY <1>10, <1>11, <1>12, FlowsStays

(* A node that returns null ends its branch. A disabled one has data.      *)
LEMMA EndsBranchFlows ==
  ASSUME Typed, Typed', Stops, Given(stack, current), FlowInv, EndsBranch
  PROVE  FlowInv' /\ FlowStep /\ NoNodeRuns
<1>1. /\ current # Null /\ current' = Null
      /\ UNCHANGED <<wf, stack, waiting, runData, status, filter>>
  BY DEF EndsBranch, EndBranch, Executing
<1>2. current \in Items /\ First(LineOf(stack, current), current, stack) /\ RunsIn(stack, runData) = Ended(runData)
  BY <1>1, Executed
<1>3. status \notin {"waiting", "error"}
  BY <1>1 DEF Stops
<1>4. current.main[1] # Null
  <2>1. current.main # <<>> /\ Null \notin ToSet(current.main)
    BY <1>1 DEF Typed, Given
  <2> QED
    BY <1>2, <2>1, FirstGiven
<1>5. current.node \in wf.ends
  BY <1>4 DEF EndsBranch
<1> QED
  BY <1>1, <1>2, <1>3, <1>5, DropFlows

(* The next item is executed, or dropped by the filter.                    *)
LEMMA ShiftFlows ==
  ASSUME Typed, Typed', FlowInv, Shift
  PROVE  FlowInv' /\ FlowStep /\ NoNodeRuns
<1>1. /\ status = "running" /\ current = Null /\ stack # <<>> /\ stack' = Tail(stack)
      /\ UNCHANGED <<wf, waiting, runData, status, filter>>
      /\ \/ Head(stack).node \in filter /\ current' = Head(stack)
         \/ Head(stack).node \notin filter /\ current' = Null
  BY DEF Shift
<1>2. PICK x \in Items, s \in Seq(Items) : x = Head(stack) /\ s = Tail(stack)
  <2>1. Head(stack) \in Items /\ stack' \in Seq(Items)
    BY ShiftDoes DEF Typed
  <2> QED
    BY <1>1, <2>1
<1>3. stack = <<x>> \o s
  BY <1>1, <1>2 DEF Typed
<1>4. First(stack, x, s) /\ LineOf(stack, current) = stack
  BY <1>1, <1>3 DEF First, LineOf
<1>5. RunsIn(stack, runData) = Ended(runData) /\ runData \in [Node -> Seq(TaskData)]
  BY <1>1, EndedIs DEF FlowInv, Flows, Settled, Typed
<1>6. CASE Head(stack).node \notin filter /\ current' = Null
  <2>1. x.node \in wf.ends \cup (Node \ filter)
    BY <1>2, <1>6 DEF Items
  <2>2. First(LineOf(stack, current), x, stack')
    BY <1>1, <1>2, <1>4
  <2> QED
    BY <1>1, <1>5, <1>6, <2>1, <2>2, DropFlows
<1>7. CASE current' = Head(stack)
  <2>1. x # Null
    BY NoNode
  <2>2. LineOf(stack', current') = stack
    BY <1>1, <1>2, <1>3, <1>7, <2>1 DEF LineOf
  <2>3. Sound(stack, waiting) /\ History(runData, Ended(runData), Held(stack, waiting)) /\ InTurn(stack, Ended(runData))
    BY <1>4, <1>5 DEF FlowInv, Flows
  <2>4. Sound(s, waiting) /\ Held(s, waiting) \subseteq Held(stack, waiting)
    BY <1>4, <2>3, LineHead DEF Typed
  <2>5. (\A n \in Node \ Tools : ~RedoneIn(s, runData, n)) /\ RunsIn(s, runData) = Ended(runData)
    <3>1. HeldS(s) \subseteq Held(stack, waiting)
      BY <2>4 DEF Held
    <3> QED
      BY <1>5, <2>3, <2>4, <3>1, Unredone
  <2>6. Settled(s, x, runData, status) /\ Paused(s, runData, status)
    BY <1>1, <2>5 DEF Settled, Paused
  <2>7. Flows(stack', current', waiting', runData', status')
    BY <1>1, <1>2, <1>7, <2>2, <2>3, <2>5, <2>6 DEF Flows
  <2>8. UNCHANGED Flow!flowVars
    <3>1. Once(waiting)
      BY <2>3 DEF Sound
    <3>2. Held(LineOf(stack', current'), waiting') = Held(LineOf(stack, current), waiting)
      BY <1>1, <1>4, <2>2
    <3>3. RunsIn(stack', runData') = RunsIn(stack, runData)
      BY <1>1, <1>2, <1>5, <2>5
    <3> QED
      BY <1>1, <3>1, <3>2, <3>3, Stutters
  <2>9. NoNodeRuns
    <3>1. RunsIn(stack', runData') = RunsIn(stack, runData)
      BY <1>1, <1>2, <1>5, <2>5
    <3>2. PICK l \in Seq(Items) : l = stack
      BY DEF Typed
    <3>3. Shifted(l, l)
      BY LineShifts
    <3> QED
      BY <1>1, <1>4, <2>2, <3>1, <3>2, <3>3 DEF NoNodeRuns
  <2> QED
    BY <1>1, <2>7, <2>8, <2>9, FlowsStays DEF FlowStep
<1> QED
  BY <1>1, <1>6, <1>7

(* The run of node n on main has been added to data.                       *)
RunAdded(more, data, n, main) ==
  /\ more \in [Node -> Seq(TaskData)]
  /\ \A m \in Node \ Tools : m # n => more[m] = data[m]
  /\ n \notin Tools => /\ Len(more[n]) = Len(data[n]) + 1
                       /\ more[n][Len(more[n])].main = main
                       /\ \A i \in 1..Len(data[n]) : more[n][i] = data[n][i]

(* A node that is not a tool runs under the next index.                    *)
LEMMA RunIndexIsNext ==
  ASSUME Typed, FlowInv, current # Null, current.node \notin Tools
  PROVE  RunIndex = Len(runData[current.node]) /\ RunIndex = Ended(runData)[current.node]
<1>1. runData \in [Node -> Seq(TaskData)] /\ current.node \in Node
  BY RunIndexIs DEF Typed
<1>2. Ended(runData)[current.node] = Len(runData[current.node])
  BY <1>1, EndedIs
<1>3. current.run # Null => current.run = Ended(runData)[current.node]
  BY Executed, TailInTurn
<1> QED
  BY <1>2, <1>3 DEF RunIndex

(* So its run is added.                                                    *)
LEMMA RecordAdds ==
  ASSUME Typed, FlowInv, current # Null, NEW outs \in SUBSET Nat, NEW more, more = Record(outs)
  PROVE  RunAdded(more, runData, current.node, current.main)
<1> DEFINE task == [main |-> current.main, outs |-> outs, state |-> "success"]
<1>1. PICK n \in Node : n = current.node
  BY RunIndexIs
<1>2. more \in [Node -> Seq(TaskData)] /\ runData \in [Node -> Seq(TaskData)] /\ task \in TaskData
  BY RecordDoes, RunIndexIs DEF Typed, TaskData
<1>3. PICK t \in TaskData : t = task
  BY <1>2
<1>4. t.main = current.main
  BY <1>3
<1> HIDE DEF task
<1>5. more = IF RunIndex < Len(runData[n]) THEN [runData EXCEPT ![n][RunIndex + 1] = t]
             ELSE [runData EXCEPT ![n] = Append(runData[n], t)]
  BY <1>1, <1>3 DEF Record, task
<1>6. \A m \in Node : m # n => more[m] = runData[m]
  BY <1>2, <1>5
<1>7. ASSUME n \notin Tools
      PROVE  /\ Len(more[n]) = Len(runData[n]) + 1 /\ more[n][Len(more[n])] = t
             /\ \A i \in 1..Len(runData[n]) : more[n][i] = runData[n][i]
  <2>1. RunIndex = Len(runData[n]) /\ Len(runData[n]) \in Nat
    BY <1>1, <1>7, RunIndexIsNext, RunIndexIs
  <2>2. more = [runData EXCEPT ![n] = Append(runData[n], t)]
    BY <1>5, <2>1
  <2>3. PICK runs \in Seq(TaskData) : runs = runData[n]
    BY <1>2
  <2>4. more[n] = Append(runs, t)
    BY <1>2, <2>2, <2>3
  <2> QED
    BY <2>3, <2>4
<1> QED
  BY <1>1, <1>2, <1>4, <1>6, <1>7 DEF RunAdded

(* The run that failed is added.                                           *)
LEMMA FailureAdds ==
  ASSUME Typed, current # Null, FailsForGood
  PROVE  /\ RunAdded(runData', runData, current.node, current.main)
         /\ current.node \notin Tools => Last(runData'[current.node]).state = "error"
<1> DEFINE task == [main |-> current.main, outs |-> {}, state |-> "error"]
<1>1. PICK n \in Node : n = current.node
  BY RunIndexIs
<1>2. runData' \in [Node -> Seq(TaskData)] /\ runData \in [Node -> Seq(TaskData)] /\ task \in TaskData
  BY FailsDoes, RunIndexIs DEF Typed, TaskData
<1>3. PICK t \in TaskData : t = task
  BY <1>2
<1>4. t.main = current.main /\ t.state = "error"
  BY <1>3
<1> HIDE DEF task
<1>5. runData' = [runData EXCEPT ![n] = Append(runData[n], t)]
  BY <1>1, <1>3 DEF FailsForGood, task
<1>6. \A m \in Node : m # n => runData'[m] = runData[m]
  BY <1>2, <1>5
<1>7. PICK runs \in Seq(TaskData) : runs = runData[n]
  BY <1>2
<1>8. runData'[n] = Append(runs, t)
  BY <1>2, <1>5, <1>7
<1>9. /\ Len(runData'[n]) = Len(runs) + 1 /\ runData'[n][Len(runData'[n])] = t
      /\ \A i \in 1..Len(runs) : runData'[n][i] = runs[i]
  BY <1>8
<1>10. Last(runData'[n]) = t
  BY <1>9 DEF Last
<1> QED
  BY <1>1, <1>2, <1>4, <1>6, <1>7, <1>9, <1>10 DEF RunAdded

(* A node that waits or has failed goes back on the stack: its run is not  *)
(* over.                                                                   *)
LEMMA PutBackFlows ==
  ASSUME Typed, Typed', FlowInv, current # Null, UNCHANGED <<wf, filter, waiting>>,
         First(stack', current, stack), current' = Null,
         RunAdded(runData', runData, current.node, current.main),
         status' \in {"waiting", "error", "canceled"},
         status' = "error" /\ current.node \notin Tools => Last(runData'[current.node]).state = "error"
  PROVE  FlowInv' /\ FlowStep /\ NoNodeRuns
<1>1. PICK l \in Seq(Items) : l = LineOf(stack, current)
  BY Executed
<1>2. /\ current \in Items /\ stack \in Seq(Items) /\ First(l, current, stack)
      /\ Sound(l, waiting) /\ Once(waiting)
      /\ RunsIn(stack, runData) = Ended(runData)
      /\ History(runData, Ended(runData), Held(l, waiting)) /\ InTurn(l, Ended(runData))
  BY <1>1, Executed
<1>3. stack' = l /\ LineOf(stack', current') = l
  BY <1>2 DEF First, LineOf
<1>4. l # <<>> /\ Head(l) = current
  BY <1>2 DEF First
<1>5. runData \in [Node -> Seq(TaskData)] /\ runData' \in [Node -> Seq(TaskData)] /\ current.node \in Node
  BY RunIndexIs DEF Typed, RunAdded
<1>6. \A n \in Node : Len(runData[n]) \in Nat /\ Len(runData'[n]) \in Nat
  BY <1>5, HowLong
<1>7. \A n \in Node \ Tools : n # current.node => runData'[n] = runData[n] /\ ~RedoneIn(l, runData', n)
  BY <1>4 DEF RunAdded, RedoneIn
<1>8. ASSUME current.node \notin Tools
      PROVE  RedoneIn(l, runData', current.node) /\ Len(runData'[current.node]) - 1 = Len(runData[current.node])
  <2>1. PICK runs \in Seq(TaskData) : runs = runData'[current.node]
    BY <1>5
  <2>2. Len(runs) = Len(runData[current.node]) + 1 /\ runs[Len(runs)].main = current.main
    BY <1>8, <2>1 DEF RunAdded
  <2>3. runs # <<>> /\ Last(runs).main = current.main
    BY <2>2, <1>5, <1>6 DEF Last
  <2> QED
    BY <1>4, <1>5, <1>6, <2>1, <2>2, <2>3 DEF RedoneIn
<1>9. RunsIn(l, runData') = Ended(runData)
  <2>1. ASSUME NEW n \in Node \ Tools
        PROVE  (IF RedoneIn(l, runData', n) THEN Len(runData'[n]) - 1 ELSE Len(runData'[n])) = Len(runData[n])
    BY <1>7, <1>8
  <2> QED
    BY <2>1 DEF RunsIn, Ended
<1>10. History(runData', Ended(runData), Held(l, waiting))
  <2>1. \A n \in Node \ Tools : \A i \in 1..Ended(runData)[n] : runData'[n][i] = runData[n][i]
    BY <1>5, EndedIs DEF RunAdded
  <2> QED
    BY <1>2, <2>1, HistoryKept
<1>11. Settled(l, Null, runData', status')
  BY DEF Settled
<1>12. Paused(l, runData', status')
  BY <1>4, <1>8 DEF Paused
<1>13. Flows(stack', current', waiting', runData', status')
  BY <1>2, <1>3, <1>9, <1>10, <1>11, <1>12 DEF Flows
<1>14. UNCHANGED Flow!flowVars
  <2>1. RunsIn(stack', runData') = RunsIn(stack, runData)
    BY <1>2, <1>3, <1>9
  <2>2. Held(LineOf(stack', current'), waiting') = Held(LineOf(stack, current), waiting)
    BY <1>1, <1>3
  <2> QED
    BY <1>2, <2>1, <2>2, Stutters
<1>15. NoNodeRuns
  <2>1. RunsIn(stack', runData') = RunsIn(stack, runData)
    BY <1>2, <1>3, <1>9
  <2>2. Shifted(l, l)
    BY LineShifts
  <2> QED
    BY <1>1, <1>3, <2>1, <2>2 DEF NoNodeRuns
<1> QED
  BY <1>13, <1>14, <1>15, FlowsStays DEF FlowStep

(* A node waits.                                                           *)
LEMMA WaitsFlows ==
  ASSUME Typed, Typed', Stops, FlowInv, RunWaits
  PROVE  FlowInv' /\ FlowStep /\ NoNodeRuns
<1>1. /\ current # Null /\ current' = Null /\ runData' = Record(PassThrough)
      /\ UNCHANGED <<wf, waiting, filter>> /\ First(stack', current, stack)
      /\ status' = (IF status = "running" THEN "waiting" ELSE status)
  BY DEF RunWaits, Executes, Executing, First
<1>2. RunAdded(runData', runData, current.node, current.main)
  BY <1>1, PassesOn, RecordAdds
<1>3. status' \in {"waiting", "canceled"}
  BY <1>1 DEF Typed, Statuses, Stops
<1> QED
  BY <1>1, <1>2, <1>3, PutBackFlows

(* A node fails for good.                                                  *)
LEMMA FailsFlows ==
  ASSUME Typed, Typed', Stops, FlowInv, FailsForGood
  PROVE  FlowInv' /\ FlowStep /\ NoNodeRuns
<1>1. /\ current # Null /\ current' = Null
      /\ UNCHANGED <<wf, waiting, filter>> /\ First(stack', current, stack)
      /\ status' = (IF status = "running" THEN "error" ELSE status)
  BY DEF FailsForGood, Executes, Executing, First
<1>2. /\ RunAdded(runData', runData, current.node, current.main)
      /\ current.node \notin Tools => Last(runData'[current.node]).state = "error"
  BY <1>1, FailureAdds
<1>3. status' \in {"error", "canceled"}
  BY <1>1 DEF Typed, Statuses, Stops
<1> QED
  BY <1>1, <1>2, <1>3, PutBackFlows

(* The items of t are those of s but for the mark disabled.                *)
SameItems(t, s) ==
  /\ t \in Seq(Items) /\ Len(t) = Len(s)
  /\ \A i \in 1..Len(s) : t[i].node = s[i].node /\ t[i].main = s[i].main /\ t[i].run = s[i].run

LEMMA SameItemsFlow ==
  ASSUME NEW s \in Seq(Items), NEW t, SameItems(t, s), NEW w, Sound(s, w), NEW runs, InTurn(s, runs)
  PROVE  Sound(t, w) /\ Held(t, w) = Held(s, w) /\ InTurn(t, runs)
<1>1. t \in Seq(Items) /\ Len(t) = Len(s)
  BY DEF SameItems
<1>2. \A i \in 1..Len(s) : t[i].node = s[i].node /\ t[i].main = s[i].main /\ t[i].run = s[i].run
  BY DEF SameItems
<1>3. \A i \in 1..Len(t) : Lawful(t[i])
  BY <1>1, <1>2 DEF Sound, Lawful
<1>4. HeldS(t) = HeldS(s)
  <2>1. ASSUME NEW p
        PROVE  p \in HeldS(t) <=> p \in HeldS(s)
    BY <1>1, <1>2, InLine
  <2> QED
    BY <2>1
<1>5. Sound(t, w)
  BY <1>1, <1>2, <1>3, <1>4 DEF Sound
<1>6. InTurn(t, runs)
  <2>1. ASSUME NEW i \in 1..Len(t), t[i].node \notin Tools, t[i].run # Null
        PROVE  t[i].run = runs[t[i].node] /\ \A j \in 1..(i - 1) : t[j].node \in Tools
    <3>1. s[i].run = runs[s[i].node] /\ \A j \in 1..(i - 1) : s[j].node \in Tools
      BY <1>1, <1>2, <2>1 DEF InTurn
    <3>2. \A j \in 1..(i - 1) : j \in 1..Len(s)
      BY <1>1
    <3> QED
      BY <1>1, <1>2, <3>1, <3>2
  <2> QED
    BY <2>1 DEF InTurn
<1> QED
  BY <1>4, <1>5, <1>6 DEF Held

(* An execution goes on that has waited or failed: the run of the head of  *)
(* the stack that is not over is removed.                                  *)
LEMMA GoesOnFlows ==
  ASSUME Typed, Typed', Stops, FlowInv, UNCHANGED <<wf, filter, waiting, current>>,
         status \in {"waiting", "error"}, status' = "running", SameItems(stack', stack),
         Head(stack).node \notin Tools => runData'[Head(stack).node] = Front(runData[Head(stack).node]),
         \A n \in Node \ Tools : n # Head(stack).node => runData'[n] = runData[n]
  PROVE  FlowInv' /\ FlowStep /\ NoNodeRuns
<1>1. current = Null /\ stack # <<>>
  BY DEF Stops
<1>2. LineOf(stack, current) = stack /\ LineOf(stack', current') = stack'
  BY <1>1 DEF LineOf
<1>3. PICK s \in Seq(Items), t \in Seq(Items) : s = stack /\ t = stack'
  BY DEF Typed
<1>4. PICK runs : runs = RunsIn(s, runData)
  OBVIOUS
<1>5. /\ Sound(s, waiting) /\ Once(waiting) /\ History(runData, runs, Held(s, waiting)) /\ InTurn(s, runs)
      /\ Paused(s, runData, status)
  BY <1>2, <1>3, <1>4 DEF FlowInv, Flows, Sound
<1>6. Sound(t, waiting) /\ Held(t, waiting) = Held(s, waiting) /\ InTurn(t, runs)
  BY <1>3, <1>5, SameItemsFlow
<1>7. runData \in [Node -> Seq(TaskData)] /\ runData' \in [Node -> Seq(TaskData)]
  BY DEF Typed
<1>8. ASSUME NEW n \in Node \ Tools
      PROVE  /\ runs[n] = Len(runData'[n])
             /\ \A i \in 1..runs[n] : runData'[n][i] = runData[n][i]
  <2>1. PICK old \in Seq(TaskData) : old = runData[n]
    BY <1>7
  <2>2. runs[n] = IF RedoneIn(s, runData, n) THEN Len(old) - 1 ELSE Len(old)
    BY <1>4, <2>1 DEF RunsIn
  <2>3. CASE n = Head(stack).node
    <3>1. RedoneIn(s, runData, n) /\ old # <<>>
      BY <1>3, <1>5, <1>8, <2>1, <2>3 DEF Paused, RedoneIn
    <3>2. runData'[n] = Front(old)
      BY <2>1, <2>3, <1>8
    <3>3. Len(Front(old)) = Len(old) - 1 /\ \A i \in 1..(Len(old) - 1) : Front(old)[i] = old[i]
      BY <3>1, OneLess
    <3> QED
      BY <2>1, <2>2, <3>1, <3>2, <3>3
  <2>4. CASE n # Head(stack).node
    <3>1. ~RedoneIn(s, runData, n) /\ runData'[n] = old
      BY <1>3, <1>8, <2>1, <2>4 DEF RedoneIn
    <3> QED
      BY <2>1, <2>2, <3>1
  <2> QED
    BY <2>3, <2>4
<1>9. runs = Ended(runData')
  <2>1. runs = [n \in Node |-> runs[n]] /\ \A n \in Node : n \in Tools => runs[n] = 0
    BY <1>4 DEF RunsIn
  <2> QED
    BY <1>8, <2>1 DEF Ended
<1>10. History(runData', runs, Held(t, waiting))
  BY <1>5, <1>6, <1>8, HistoryKept
<1>11. (\A n \in Node \ Tools : ~RedoneIn(t, runData', n)) /\ RunsIn(t, runData') = runs
  <2>1. HeldS(t) \subseteq Held(t, waiting)
    BY DEF Held
  <2> QED
    BY <1>6, <1>7, <1>9, <1>10, <2>1, Unredone
<1>12. Settled(t, Null, runData', status') /\ Paused(t, runData', status')
  BY <1>11 DEF Settled, Paused
<1>13. Flows(stack', current', waiting', runData', status')
  BY <1>1, <1>2, <1>3, <1>6, <1>10, <1>11, <1>12 DEF Flows
<1>14. UNCHANGED Flow!flowVars
  <2>1. RunsIn(stack', runData') = RunsIn(stack, runData)
    BY <1>3, <1>4, <1>11
  <2>2. Held(LineOf(stack', current'), waiting') = Held(LineOf(stack, current), waiting)
    BY <1>2, <1>3, <1>6
  <2> QED
    BY <1>5, <2>1, <2>2, Stutters
<1>15. NoNodeRuns
  <2>1. RunsIn(stack', runData') = RunsIn(stack, runData)
    BY <1>3, <1>4, <1>11
  <2>2. Len(t) = Len(s) /\ \A i \in 1..Len(s) : t[i].node = s[i].node
    BY <1>3 DEF SameItems
  <2>3. Shifted(t, s)
    BY <2>2, LineShifts
  <2> QED
    BY <1>2, <1>3, <2>1, <2>3 DEF NoNodeRuns
<1> QED
  BY <1>13, <1>14, <1>15, FlowsStays DEF FlowStep

(* An execution that waited is resumed.                                    *)
LEMMA ResumeFlows ==
  ASSUME Typed, Typed', Stops, FlowInv, Resume
  PROVE  FlowInv' /\ FlowStep /\ NoNodeRuns
<1>1. /\ status = "waiting" /\ status' = "running" /\ UNCHANGED <<wf, waiting, current, filter>>
      /\ Len(stack') = Len(stack) /\ DOMAIN stack' = DOMAIN stack
      /\ \A i \in DOMAIN stack :
           /\ stack'[i].node = stack[i].node /\ stack'[i].main = stack[i].main
           /\ stack'[i].run = stack[i].run
  BY ResumeDoes
<1>2. stack \in Seq(Items) /\ stack' \in Seq(Items) /\ runData \in [Node -> Seq(TaskData)]
  BY DEF Typed
<1>3. SameItems(stack', stack)
  BY <1>1, <1>2 DEF SameItems
<1>4. runData' = [runData EXCEPT ![Head(stack).node] = Front(runData[Head(stack).node])]
  BY DEF Resume
<1>5. Head(stack).node \in Node
  <2>1. stack # <<>>
    BY <1>1 DEF Stops
  <2>2. Head(stack) \in Items
    BY <1>2, <2>1
  <2> QED
    BY <2>2 DEF Items
<1>6. /\ runData'[Head(stack).node] = Front(runData[Head(stack).node])
      /\ \A n \in Node : n # Head(stack).node => runData'[n] = runData[n]
  BY <1>2, <1>4, <1>5
<1> QED
  BY <1>1, <1>3, <1>6, GoesOnFlows

(* An execution that failed is retried.                                    *)
LEMMA RetryFlows ==
  ASSUME Typed, Typed', Stops, FlowInv, Retry
  PROVE  FlowInv' /\ FlowStep /\ NoNodeRuns
<1>1. /\ status = "error" /\ status' = "running" /\ UNCHANGED <<wf, stack, waiting, current, filter>>
  BY RetryDoes
<1>2. stack \in Seq(Items) /\ runData \in [Node -> Seq(TaskData)]
  BY DEF Typed
<1>3. SameItems(stack', stack)
  BY <1>1, <1>2 DEF SameItems
<1>4. PICK n : n = Head(stack).node
  OBVIOUS
<1>5. n \in Node
  <2>1. stack # <<>>
    BY <1>1 DEF Stops
  <2>2. Head(stack) \in Items
    BY <1>2, <2>1
  <2> QED
    BY <1>4, <2>2 DEF Items
<1>6. runData' = IF Last(runData[n]).state = "error" THEN [runData EXCEPT ![n] = Front(runData[n])] ELSE runData
  BY <1>4 DEF Retry
<1>7. \A m \in Node : m # n => runData'[m] = runData[m]
  BY <1>2, <1>6
<1>8. n \notin Tools => runData'[n] = Front(runData[n])
  <2>1. n \notin Tools => Last(runData[n]).state = "error"
    BY <1>1, <1>4 DEF FlowInv, Flows, Paused
  <2> QED
    BY <1>2, <1>5, <1>6, <2>1
<1> QED
  BY <1>1, <1>3, <1>4, <1>7, <1>8, GoesOnFlows

(* A request adds runs of tools only.                                      *)
LEMMA RequestsKeepNodes ==
  ASSUME Typed, RunRequests, NEW n \in Node \ Tools
  PROVE  runData'[n] = runData[n]
<1> DEFINE tools == wf.tools[current.node]
           task == [main |-> <<>>, outs |-> {}, state |-> "called"]
           times(k) == Cardinality({j \in DOMAIN tools : tools[j] = k})
           slotsOf(k) == [i \in 1 .. times(k) |-> task]
           asked == {j \in DOMAIN tools : tools[j] = n}
           slots == [i \in 1 .. Cardinality(asked) |-> task]
<1>1. runData'[n] = runData[n] \o slots /\ current.node \in DOMAIN wf.tools
  <2>1. runData' = [k \in Node |-> runData[k] \o slotsOf(k)] /\ current.node \in DOMAIN wf.tools
    BY Zenon DEF RunRequests
  <2>2. slotsOf(n) = slots
    OBVIOUS
  <2> HIDE DEF slotsOf, slots
  <2> QED
    BY <2>1, <2>2
<1>2. asked = {}
  <2>1. tools \in Seq(Node)
    BY <1>1, TheWorkflow DEF Typed, IsWorkflow
  <2>2. ToSet(tools) \subseteq Tools
    BY <1>1 DEF Tools, ToolsOf
  <2>3. ToSet(tools) = {tools[i] : i \in 1..Len(tools)} /\ DOMAIN tools = 1..Len(tools)
    BY <2>1, SetOf
  <2> QED
    BY <2>2, <2>3
<1>3. Cardinality(asked) = 0
  BY <1>2, FS_EmptySet
<1> HIDE DEF asked
<1>4. slots = <<>>
  BY <1>3
<1> HIDE DEF slots
<1>5. runData[n] \in Seq(TaskData)
  BY DEF Typed
<1> QED
  BY <1>1, <1>4, <1>5

(* An agent that asks keeps the data of its one input.                     *)
LEMMA AgentKeeps ==
  ASSUME Typed, WellConnected, NEW x \in Items, x.main # <<>>, Lawful(x), x.node \in DOMAIN wf.tools,
         NEW y \in Items, y.node = x.node, y.main = <<x.main[1]>>
  PROVE  Lawful(y) /\ Packets(y.main) = Packets(x.main)
<1>1. x.main \in Seq(Data) /\ Len(x.main) >= 1 /\ x.main[1] \in Data
  <2>1. x.main \in Seq(Data)
    BY DEF Items
  <2> QED
    BY <2>1, HowLong
<1>2. y.main \in Seq(Data) /\ Len(y.main) = 1 /\ y.main[1] = x.main[1]
  BY <1>1
<1>3. Packets(y.main) = {x.main[1]} \ {Null, Hole, Empty, Call}
  <2>1. ToSet(y.main) = {y.main[i] : i \in 1..Len(y.main)}
    BY <1>2, SetOf
  <2>2. {y.main[i] : i \in 1..Len(y.main)} = {x.main[1]}
    BY <1>2
  <2>3. \A m \in Seq(Data) : Packets(m) = ToSet(m) \ {Null, Hole, Empty, Call}
    BY PacketsOf
  <2> QED
    BY <1>2, <2>1, <2>2, <2>3
<1>4. Packets(x.main) = {x.main[i] : i \in 1..Len(x.main)} \ {Null, Hole, Empty, Call}
  BY <1>1, PacketsOf, SetOf
<1>5. Packets(y.main) \subseteq Packets(x.main)
  BY <1>1, <1>3, <1>4
<1>6. CASE x.node \in Tools
  BY <1>5, <1>6 DEF Lawful
<1>7. CASE x.node \notin Tools /\ x.main = <<Trigger>>
  BY <1>2, <1>7 DEF Lawful
<1>8. CASE x.node \notin Tools /\ Fits(x.node, x.main) /\ Packets(x.main) # {}
  <2>1. NumberOfInputs(x.node) <= 1
    BY <1>8 DEF WellConnected
  <2>2. ASSUME NEW p \in Packets(x.main)
        PROVE  p = x.main[1]
    <3>1. PICK i \in 1..Len(x.main) : x.main[i] = p /\ Arrived(p, x.node, i)
      BY <1>1, <1>8, FitsPackets
    <3>2. p.conn \in MainConns /\ p.conn.to = x.node /\ p.conn.in = i - 1
      BY <3>1 DEF Arrived
    <3>3. p.conn.in < NumberOfInputs(p.conn.to) /\ NumberOfInputs(p.conn.to) \in Nat
      BY <3>2, InputsBound DEF Typed
    <3>4. i = 1
      BY <2>1, <3>2, <3>3
    <3> QED
      BY <3>1, <3>4
  <2>3. Packets(y.main) = Packets(x.main)
    BY <1>3, <1>4, <1>5, <2>2
  <2>4. Fits(y.node, y.main)
    BY <1>1, <1>2, <1>8 DEF Fits
  <2> QED
    BY <1>8, <2>3, <2>4 DEF Lawful
<1> QED
  BY <1>6, <1>7, <1>8 DEF Lawful

(* An agent asks: it comes back after its tools, with what it has received.*)
LEMMA RequestsFlows ==
  ASSUME Typed, Typed', Stops, WellConnected, FlowInv, RunRequests
  PROVE  FlowInv' /\ FlowStep /\ NoNodeRuns
<1>1. /\ current # Null /\ current' = Null /\ UNCHANGED <<wf, waiting, status, filter>>
      /\ current.node \in DOMAIN wf.tools
  <2>1. current.node \in DOMAIN wf.tools
    BY Zenon DEF RunRequests
  <2> QED
    BY <2>1, RequestsDoes
<1>2. PICK x \in Items, calls \in Seq(Task) :
        /\ Called(stack', stack, x, calls)
        /\ x.node = current.node /\ x.run = RunIndex /\ x.main = <<current.main[1]>>
        /\ \A i \in 1..Len(calls) : calls[i].node \in Tools
  BY RequestsDoes
<1>3. PICK l \in Seq(Items) : l = LineOf(stack, current)
  BY <1>1, Executed
<1>4. /\ current \in Items /\ current.main # <<>> /\ stack \in Seq(Items) /\ First(l, current, stack) /\ Lawful(current)
      /\ Sound(l, waiting) /\ Once(waiting) /\ RunsIn(stack, runData) = Ended(runData)
      /\ History(runData, Ended(runData), Held(l, waiting)) /\ InTurn(l, Ended(runData))
  BY <1>1, <1>3, Executed DEF Typed
<1>5. PICK t \in Seq(Items) : t = stack'
  BY DEF Typed
<1>6. PICK m \in Nat : m = Len(calls)
  BY HowLong
<1>7. /\ Len(t) = m + 1 + Len(stack)
      /\ \A i \in 1..m : t[i].node \in Tools /\ t[i].main = <<Call>>
      /\ t[m + 1] = x
      /\ \A i \in 1..Len(stack) : t[m + 1 + i] = stack[i]
  <2>1. \A i \in 1..m : m + 1 - i \in 1..m
    OBVIOUS
  <2> QED
    BY <1>2, <1>5, <1>6, <2>1 DEF Called
<1>8. Len(stack) \in Nat /\ Len(l) = Len(stack) + 1 /\ l[1] = current /\ \A i \in 1..Len(stack) : l[i + 1] = stack[i]
  <2>1. PICK c \in Items, s \in Seq(Items) : c = current /\ s = stack
    BY <1>4
  <2>2. l = <<c>> \o s
    BY <1>4, <2>1 DEF First
  <2>3. Len(s) \in Nat /\ Len(l) = Len(s) + 1 /\ l[1] = c /\ \A i \in 1..Len(s) : l[i + 1] = s[i]
    BY <2>2
  <2> QED
    BY <2>1, <2>3
<1>9. Lawful(x) /\ Packets(x.main) = Packets(current.main)
  BY <1>1, <1>2, <1>4, AgentKeeps
<1>10. \A i \in m + 1..Len(t) : /\ i - m \in 1..Len(l) /\ Packets(t[i].main) = Packets(l[i - m].main)
                                /\ Lawful(t[i])
  <2>1. ASSUME NEW i \in m + 1..Len(t)
        PROVE  /\ i - m \in 1..Len(l) /\ Packets(t[i].main) = Packets(l[i - m].main)
               /\ Lawful(t[i])
    <3>1. CASE i = m + 1
      <4>1. i - m = 1 /\ 1 \in 1..Len(l)
        BY <3>1, <1>8
      <4> QED
        BY <3>1, <4>1, <1>7, <1>8, <1>9
    <3>2. CASE i # m + 1
      <4>1. PICK j \in 1..Len(stack) : j = i - (m + 1)
        BY <2>1, <3>2, <1>7, <1>8
      <4>2. i = m + 1 + j /\ i - m = j + 1 /\ j + 1 \in 1..Len(l)
        BY <2>1, <4>1, <1>7, <1>8
      <4>3. t[i] = l[i - m]
        BY <4>1, <4>2, <1>7, <1>8
      <4> QED
        BY <4>2, <4>3, <1>4 DEF Sound
    <3> QED
      BY <3>1, <3>2
  <2> QED
    BY <2>1
<1>11. \A i \in 1..m : Packets(t[i].main) = {} /\ Lawful(t[i])
  <2>1. Packets(<<Call>>) = {}
    BY DEF Packets
  <2> QED
    BY <1>7, <2>1 DEF Lawful
<1>12. \A i \in 1..Len(t) : i \in 1..m \/ i \in m + 1..Len(t)
  BY <1>7, <1>8
<1>13. Sound(t, waiting) /\ HeldS(t) \subseteq HeldS(l)
  <2>1. PICK d \in Int : d = -m
    OBVIOUS
  <2>2. \A i \in 1..Len(t) : \/ Packets(t[i].main) = {}
                             \/ i + d \in 1..Len(l) /\ Packets(t[i].main) = Packets(l[i + d].main)
    BY <1>10, <1>11, <1>12, <2>1
  <2>3. \A i \in 1..Len(t) : Lawful(t[i])
    BY <1>10, <1>11, <1>12
  <2> QED
    BY <1>4, <2>2, <2>3, Moved
<1>14. HeldS(l) \subseteq HeldS(t)
  <2>1. ASSUME NEW p \in HeldS(l)
        PROVE  p \in HeldS(t)
    <3>1. PICK i \in 1..Len(l) : p \in Packets(l[i].main)
      BY <2>1, InLine
    <3>2. i + m \in m + 1..Len(t) /\ (i + m) - m = i /\ i + m \in 1..Len(t)
      BY <1>7, <1>8
    <3>3. Packets(t[i + m].main) = Packets(l[i].main)
      BY <1>10, <3>2
    <3> QED
      BY <3>1, <3>2, <3>3, InLine
  <2> QED
    BY <2>1
<1>15. Held(t, waiting) = Held(l, waiting)
  BY <1>13, <1>14 DEF Held
<1>16. runData \in [Node -> Seq(TaskData)] /\ runData' \in [Node -> Seq(TaskData)]
  BY DEF Typed
<1>17. Ended(runData') = Ended(runData)
  BY RequestsKeepNodes DEF Ended
<1>18. History(runData', Ended(runData), Held(t, waiting))
  <2>1. \A n \in Node \ Tools : \A i \in 1..Ended(runData)[n] : runData'[n][i] = runData[n][i]
    BY RequestsKeepNodes
  <2> QED
    BY <1>4, <1>15, <2>1, HistoryKept
<1>19. (\A n \in Node \ Tools : ~RedoneIn(t, runData', n)) /\ RunsIn(t, runData') = Ended(runData)
  <2>1. HeldS(t) \subseteq Held(t, waiting)
    BY DEF Held
  <2> QED
    BY <1>13, <1>16, <1>17, <1>18, <2>1, Unredone
<1>20. InTurn(t, Ended(runData))
  <2>1. /\ InTurn(stack, Ended(runData))
        /\ current.node \notin Tools => \A i \in 1..Len(stack) : stack[i].node \in Tools \/ stack[i].run = Null
    BY <1>4, TailInTurn
  <2>2. x.node \notin Tools => x.run = Ended(runData)[x.node]
    BY <1>1, <1>2, RunIndexIsNext
  <2>3. ASSUME NEW i \in 1..Len(t), t[i].node \notin Tools, t[i].run # Null
        PROVE  t[i].run = Ended(runData)[t[i].node] /\ \A j \in 1..(i - 1) : t[j].node \in Tools
    <3>1. CASE i \in 1..m
      BY <3>1, <2>3, <1>7
    <3>2. CASE i = m + 1
      BY <3>2, <2>2, <2>3, <1>7
    <3>3. CASE i \notin 1..m /\ i # m + 1
      <4>1. PICK j \in 1..Len(stack) : j = i - (m + 1)
        BY <3>3, <1>7, <1>8
      <4>2. t[i] = stack[j] /\ i = m + 1 + j
        BY <4>1, <1>7, <1>8
      <4>3. stack[j].run = Ended(runData)[stack[j].node] /\ \A k \in 1..(j - 1) : stack[k].node \in Tools
        BY <2>1, <2>3, <4>2 DEF InTurn
      <4>4. x.node \in Tools
        BY <1>2, <2>1, <2>3, <4>2
      <4>5. ASSUME NEW k \in 1..(i - 1)
            PROVE  t[k].node \in Tools
        <5>1. CASE k \in 1..m
          BY <5>1, <1>7
        <5>2. CASE k = m + 1
          BY <5>2, <4>4, <1>7
        <5>3. CASE k \notin 1..m /\ k # m + 1
          <6>1. PICK o \in 1..(j - 1) : o = k - (m + 1)
            BY <4>2, <5>3, <1>8
          <6>2. k = m + 1 + o /\ o \in 1..Len(stack)
            BY <6>1, <1>8
          <6> QED
            BY <4>3, <6>1, <6>2, <1>7
        <5> QED
          BY <5>1, <5>2, <5>3
      <4> QED
        BY <4>2, <4>3, <4>5
    <3> QED
      BY <3>1, <3>2, <3>3
  <2> QED
    BY <2>3 DEF InTurn
<1>21. Settled(t, Null, runData', status) /\ Paused(t, runData', status)
  <2>1. status \notin {"waiting", "error"}
    BY <1>1 DEF Stops
  <2> QED
    BY <1>19, <2>1 DEF Settled, Paused
<1>22. LineOf(stack', current') = t
  BY <1>1, <1>5 DEF LineOf
<1>23. Flows(stack', current', waiting', runData', status')
  BY <1>1, <1>5, <1>13, <1>18, <1>19, <1>20, <1>21, <1>22 DEF Flows
<1>24. UNCHANGED Flow!flowVars
  <2>1. RunsIn(stack', runData') = RunsIn(stack, runData)
    BY <1>4, <1>5, <1>19
  <2>2. Held(LineOf(stack', current'), waiting') = Held(LineOf(stack, current), waiting)
    BY <1>1, <1>3, <1>15, <1>22
  <2> QED
    BY <1>1, <1>4, <2>1, <2>2, Stutters
<1>25. NoNodeRuns
  <2>1. RunsIn(stack', runData') = RunsIn(stack, runData)
    BY <1>4, <1>5, <1>19
  <2>2. PICK d \in Int : d = -m
    OBVIOUS
  <2>3. ASSUME NEW i \in 1..Len(t), t[i].node \notin Tools
        PROVE  i + d \in 1..Len(l) /\ t[i].node = l[i + d].node
    <3>1. i \in m + 1..Len(t) /\ i + d = i - m /\ i - m \in 1..Len(l)
      BY <1>7, <1>10, <1>12, <2>2, <2>3
    <3>2. CASE i = m + 1
      BY <1>2, <1>7, <1>8, <3>1, <3>2
    <3>3. CASE i # m + 1
      <4>1. PICK j \in 1..Len(stack) : j = i - (m + 1)
        BY <3>3, <3>1, <1>7, <1>8
      <4>2. i = m + 1 + j /\ i - m = j + 1
        <5>1. i \in Int /\ j \in Int /\ m \in Int /\ j = i - (m + 1)
          BY <4>1
        <5> QED
          BY ONLY <5>1
      <4>3. t[m + 1 + j] = stack[j] /\ l[j + 1] = stack[j]
        BY <1>7, <1>8
      <4>4. t[i] = l[i + d]
        BY <3>1, <4>2, <4>3
      <4> QED
        BY <3>1, <4>4
    <3> QED
      BY <3>2, <3>3
  <2>4. Shifted(t, l)
    BY <2>3 DEF Shifted
  <2> QED
    BY <1>1, <1>3, <1>22, <2>1, <2>4 DEF NoNodeRuns
<1> QED
  BY <1>1, <1>23, <1>24, <1>25, FlowsStays DEF FlowStep

(* What the next run of n produces has not been produced before.           *)
LEMMA NewAreNew ==
  ASSUME Typed, NEW n \in Node, NEW outs, NEW runs, runs[n] \in Nat, NEW new, new = NewPackets(n, outs, runs[n])
  PROVE  \A p \in new : p \in Packet /\ p.conn.from = n /\ p.run = runs[n] /\ ~Counted(p, runs)
<1>1. MainConns \subseteq Connection
  BY Connections DEF Typed
<1>2. \A p \in new : p \in Packet /\ p.conn.from = n /\ p.run = runs[n]
  BY <1>1 DEF NewPackets, Packet
<1> QED
  BY <1>2, Unmarked DEF Counted

(* A node that has run leaves its children, in turn.                       *)
LEMMA LeavesInTurn ==
  ASSUME Typed, FlowInv, current # Null, NEW outs \in SUBSET Nat, Finish(outs), NEW runs,
         \A n \in Node \ Tools : n # current.node => runs[n] = Ended(runData)[n]
  PROVE  InTurn(stack', runs)
<1>1. Leaves
  BY FinishDoes
<1>2. /\ current \in Items /\ stack \in Seq(Items) /\ InTurn(stack, Ended(runData))
      /\ current.node \notin Tools => \A i \in 1..Len(stack) : stack[i].node \in Tools \/ stack[i].run = Null
  BY Executed, TailInTurn
<1>3. CASE stack' = stack
  <2>1. ASSUME NEW i \in 1..Len(stack), stack[i].node \notin Tools, stack[i].run # Null
        PROVE  stack[i].run = runs[stack[i].node] /\ \A j \in 1..(i - 1) : stack[j].node \in Tools
    <3>1. current.node \in Tools /\ stack[i].node # current.node
      BY <1>2, <2>1
    <3>2. stack[i].node \in Node
      <4>1. stack[i] \in Items
        BY <1>2
      <4> QED
        BY <4>1 DEF Items
    <3> QED
      BY <1>2, <2>1, <3>1, <3>2 DEF InTurn
  <2> QED
    BY <1>3, <2>1 DEF InTurn
<1>4. CASE stack' # stack
  <2>1. PICK q \in Grown(stack) :
          /\ current.node \in Tools => q = [s |-> stack, w |-> waiting]
          /\ stack' = q.s \/ Released(q, [s |-> stack', w |-> waiting'])
    BY <1>1, <1>4 DEF Leaves
  <2>2. CASE Released(q, [s |-> stack', w |-> waiting'])
    <3>1. PICK x \in Items : stack' = <<x>> /\ x.run = Null
      BY <2>2 DEF Released
    <3>2. \A i \in 1..Len(stack') : stack'[i].run = Null
      BY <3>1
    <3> QED
      BY <3>2 DEF InTurn
  <2>3. CASE stack' = q.s
    <3>1. current.node \notin Tools
      BY <1>4, <2>1, <2>3
    <3>2. PICK added \in Seq(Fresh) : q.s = added \o stack
      BY DEF Grown
    <3>3. \A i \in 1..Len(added) : added[i].run = Null
      BY HowLong DEF Fresh
    <3>4. added \in Seq(Items)
      BY SeqMonotonic DEF Fresh
    <3>5. \A i \in 1..Len(stack') : \/ i \in 1..Len(added) /\ stack'[i] = added[i]
                                    \/ i - Len(added) \in 1..Len(stack) /\ stack'[i] = stack[i - Len(added)]
      BY <1>2, <2>3, <3>2, <3>4
    <3>6. \A i \in 1..Len(stack') : stack'[i].node \in Tools \/ stack'[i].run = Null
      BY <1>2, <3>1, <3>3, <3>5
    <3> QED
      BY <3>6 DEF InTurn
  <2> QED
    BY <2>1, <2>2, <2>3
<1> QED
  BY <1>3, <1>4

(* A node that has run leaves its children's packets.                      *)
LEMMA LeavesPackets ==
  ASSUME Typed, WellConnected, FlowInv, current # Null, NEW outs \in SUBSET Nat, Finish(outs),
         current.node # destination => ~ChildrenOverwrite(current.node, outs, RunIndex, stack),
         NEW filled, filled = IF current.node = destination THEN {} ELSE outs,
         NEW new, new = NewPackets(current.node, filled, RunIndex)
  PROVE  /\ Sound(stack', waiting') /\ Held(stack', waiting') = Held(stack, waiting) \cup new
         /\ new \cap Held(LineOf(stack, current), waiting) = {}
<1>1. /\ current \in Items /\ stack \in Seq(Items) /\ Sound(stack, waiting)
      /\ Held(LineOf(stack, current), waiting) = Packets(current.main) \cup Held(stack, waiting)
      /\ History(runData, Ended(runData), Held(LineOf(stack, current), waiting))
  BY Executed
<1>2. PICK n \in Node : n = current.node
  BY <1>1 DEF Items
<1>3. PICK run \in Nat : run = RunIndex
  BY RunIndexIs
<1>4. new \cap Held(LineOf(stack, current), waiting) = {}
  <2>1. CASE n \in Tools
    <3>1. \A c \in MainConns : c.from # n
      BY <2>1, ToolsHaveNoConnections
    <3> QED
      BY <1>2, <3>1 DEF NewPackets
  <2>2. CASE n \notin Tools
    <3>1. run = Ended(runData)[n] /\ Ended(runData)[n] \in Nat
      BY <1>2, <1>3, <2>2, RunIndexIsNext
    <3>2. new = NewPackets(n, filled, Ended(runData)[n])
      BY <1>2, <1>3, <3>1
    <3>3. \A p \in new : ~Counted(p, Ended(runData))
      BY <3>1, <3>2, NewAreNew
    <3> QED
      BY <1>1, <3>3 DEF History
  <2> QED
    BY <2>1, <2>2
<1>5. CASE n = destination
  <2>1. UNCHANGED <<stack, waiting>>
    BY <1>2, <1>5 DEF Finish
  <2>2. new = {}
    BY <1>2, <1>5 DEF NewPackets
  <2> QED
    BY <1>1, <1>4, <2>1, <2>2
<1>6. CASE n # destination
  <2>1. PICK a : a = AddChildren(n, outs, run, stack)
    OBVIOUS
  <2>2. PICK q : q = ExecuteWaiting(a)
    OBVIOUS
  <2>3. stack' = q.s /\ waiting' = q.w
    BY <1>2, <1>3, <1>6, <2>1, <2>2 DEF Finish
  <2>4. wf \in Workflows /\ waiting \in Seq(Waits) /\ ConnectionsDiffer
    BY DEF Typed, WellConnected
  <2>5. new = NewPackets(n, outs, run)
    BY <1>2, <1>3, <1>6
  <2>6. ~ChildrenOverwrite(n, outs, run, stack)
    BY <1>2, <1>3, <1>6
  <2>7. Held(stack, waiting) \cap NewPackets(n, outs, run) = {}
    BY <1>1, <1>4, <2>5
  <2>8. a \in Grown(stack) /\ Sound(a.s, a.w) /\ Held(a.s, a.w) = Held(stack, waiting) \cup new
    BY <1>1, <2>1, <2>4, <2>5, <2>6, <2>7, ChildrenAdded
  <2>9. a \in [s : Seq(Items), w : Seq(Waits)]
    BY <2>8 DEF Grown
  <2>10. Sound(q.s, q.w) /\ Held(q.s, q.w) = Held(a.s, a.w)
    BY <2>2, <2>4, <2>8, <2>9, ReleaseKeeps
  <2> QED
    BY <1>4, <2>3, <2>8, <2>10
<1> QED
  BY <1>5, <1>6

(* What a run that is added has consumed and produced                      *)
LEMMA HistoryAfterRun ==
  ASSUME Typed, NEW n \in Node, NEW data \in [Node -> Seq(TaskData)], NEW more, NEW main,
         RunAdded(more, data, n, main), NEW held, NEW rest,
         History(data, Ended(data), held), rest \subseteq held,
         n \notin Tools => Packets(main) \subseteq held /\ Packets(main) \cap rest = {},
         NEW outs, NEW new, new = NewPackets(n, outs, Ended(data)[n]), n \in Tools => new = {}
  PROVE  History(more, Ended(more), rest \cup new)
<1>1. /\ more \in [Node -> Seq(TaskData)]
      /\ \A m \in Node \ Tools : m # n => more[m] = data[m]
      /\ n \notin Tools => /\ Len(more[n]) = Len(data[n]) + 1 /\ more[n][Len(more[n])].main = main
                           /\ \A i \in 1..Len(data[n]) : more[n][i] = data[n][i]
  BY DEF RunAdded
<1>2. PICK a \in [Node -> Nat], b \in [Node -> Nat] : a = Ended(data) /\ b = Ended(more)
  BY <1>1, EndedIs
<1>3. /\ \A m \in Node \ Tools : a[m] = Len(data[m]) /\ b[m] = Len(more[m])
      /\ \A m \in Node : m \in Tools => a[m] = 0 /\ b[m] = 0
  BY <1>1, <1>2, EndedIs DEF Ended
<1>4. \A m \in Node : m # n \/ n \in Tools => b[m] = a[m]
  BY <1>1, <1>3
<1>5. n \notin Tools => b[n] = a[n] + 1
  BY <1>1, <1>3
<1>6. \A p \in new : p \in Packet /\ p.conn.from = n /\ p.run = a[n] /\ ~Counted(p, a)
  <2>1. a[n] \in Nat /\ new = NewPackets(n, outs, a[n])
    BY <1>2
  <2> QED
    BY <2>1, NewAreNew
<1>7. ASSUME NEW p, Counted(p, a)
      PROVE  Counted(p, b) /\ p \notin new
  <2>1. CASE p = Trigger
    BY <2>1, <1>6, <1>7 DEF Counted
  <2>2. CASE p \in Packet /\ p.run < a[p.conn.from]
    <3>1. p.conn.from \in Node /\ p.run \in Nat
      BY <2>2 DEF Packet, Connection
    <3>2. a[p.conn.from] <= b[p.conn.from] /\ a[p.conn.from] \in Nat /\ b[p.conn.from] \in Nat
      <4>1. CASE p.conn.from = n /\ n \notin Tools
        BY <1>2, <1>5, <3>1, <4>1
      <4>2. CASE ~(p.conn.from = n /\ n \notin Tools)
        BY <1>2, <1>4, <3>1, <4>2
      <4> QED
        BY <4>1, <4>2
    <3>3. p.run < b[p.conn.from]
      BY <2>2, <3>1, <3>2
    <3> QED
      BY <1>6, <1>7, <2>2, <3>3 DEF Counted
  <2> QED
    BY <1>7, <2>1, <2>2 DEF Counted
<1>8. ASSUME NEW p \in new
      PROVE  Counted(p, b)
  <2>1. n \notin Tools
    BY <1>8
  <2> QED
    BY <1>2, <1>5, <1>6, <1>8, <2>1 DEF Counted
<1>9. /\ \A p \in held : Counted(p, a)
      /\ \A m \in Node \ Tools : \A i \in 1..a[m] :
           /\ Packets(data[m][i].main) \cap held = {}
           /\ \A p \in Packets(data[m][i].main) : Counted(p, a)
  BY <1>2 DEF History
<1>10. \A p \in rest \cup new : Counted(p, b)
  BY <1>7, <1>8, <1>9
<1>11. ASSUME NEW m \in Node \ Tools, NEW i \in 1..b[m]
       PROVE  /\ Packets(more[m][i].main) \cap (rest \cup new) = {}
              /\ \A p \in Packets(more[m][i].main) : Counted(p, b)
  <2>1. CASE i \in 1..a[m]
    <3>1. more[m][i] = data[m][i]
      BY <1>1, <1>3, <2>1
    <3> QED
      BY <1>7, <1>9, <2>1, <3>1
  <2>2. CASE i \notin 1..a[m]
    <3>1. m = n /\ n \notin Tools /\ i = Len(more[n])
      <4>1. b[m] # a[m] /\ a[m] \in Nat /\ b[m] \in Nat
        BY <1>2, <2>2
      <4>2. m = n /\ b[n] = a[n] + 1
        BY <1>4, <1>5, <4>1
      <4>3. i = a[n] + 1
        BY <2>2, <4>1, <4>2
      <4> QED
        BY <1>3, <4>2, <4>3
    <3>2. Packets(more[m][i].main) = Packets(main)
      BY <1>1, <3>1
    <3> QED
      BY <1>7, <1>9, <3>1, <3>2
  <2> QED
    BY <2>1, <2>2
<1> QED
  BY <1>2, <1>10, <1>11 DEF History

(* The executed node has run once more, if it is no tool.                  *)
NodeRuns ==
  IF current.node \in Tools THEN RunsIn(stack', runData') = RunsIn(stack, runData)
  ELSE OneMore(RunsIn(stack', runData'), RunsIn(stack, runData), current.node)

(* A node that returns data consumes what it has received and produces what*)
(* its children receive; a tool does neither.                              *)
LEMMA FinishFlows ==
  ASSUME Typed, Typed', Stops, WellConnected, FlowInv, current # Null, NEW outs \in SUBSET Nat, Finish(outs),
         current.node # destination => ~ChildrenOverwrite(current.node, outs, RunIndex, stack)
  PROVE  FlowInv' /\ FlowStep /\ NodeRuns
<1>1. /\ current' = Null /\ runData' = Record(outs) /\ UNCHANGED <<wf, status, filter>>
  BY FinishDoes
<1>2. /\ current \in Items /\ Lawful(current) /\ Once(waiting)
      /\ Packets(current.main) \cap Held(stack, waiting) = {}
      /\ Held(LineOf(stack, current), waiting) = Packets(current.main) \cup Held(stack, waiting)
      /\ RunsIn(stack, runData) = Ended(runData)
      /\ History(runData, Ended(runData), Held(LineOf(stack, current), waiting))
  BY Executed
<1>3. PICK n \in Node : n = current.node
  BY <1>2 DEF Items
<1>4. PICK filled : filled = IF current.node = destination THEN {} ELSE outs
  OBVIOUS
<1>5. PICK new : new = NewPackets(n, filled, RunIndex)
  OBVIOUS
<1>6. /\ Sound(stack', waiting') /\ Held(stack', waiting') = Held(stack, waiting) \cup new
      /\ new \cap Held(LineOf(stack, current), waiting) = {}
  BY <1>3, <1>4, <1>5, LeavesPackets
<1>7. RunAdded(runData', runData, n, current.main)
  BY <1>1, <1>3, RecordAdds
<1>8. runData \in [Node -> Seq(TaskData)] /\ runData' \in [Node -> Seq(TaskData)] /\ stack' \in Seq(Items)
  BY DEF Typed
<1>9. n \in Tools => new = {}
  BY <1>5, ToolsHaveNoConnections DEF NewPackets
<1>10. n \notin Tools => RunIndex = Ended(runData)[n]
  BY <1>3, RunIndexIsNext
<1>11. PICK made : made = NewPackets(n, IF n \in Tools THEN {} ELSE filled, Ended(runData)[n])
  OBVIOUS
<1>12. made = new
  <2>1. CASE n \in Tools
    BY <1>9, <1>11, <2>1 DEF NewPackets
  <2>2. CASE n \notin Tools
    BY <1>5, <1>10, <1>11, <2>2
  <2> QED
    BY <2>1, <2>2
<1>13. History(runData', Ended(runData'), Held(stack', waiting'))
  <2>1. PICK outputs : outputs = IF n \in Tools THEN {} ELSE filled
    OBVIOUS
  <2>2. new = NewPackets(n, outputs, Ended(runData)[n])
    BY <1>11, <1>12, <2>1
  <2>3. PICK rest, held : rest = Held(stack, waiting) /\ held = Held(LineOf(stack, current), waiting)
    OBVIOUS
  <2>4. /\ History(runData, Ended(runData), held) /\ rest \subseteq held
        /\ n \notin Tools => Packets(current.main) \subseteq held /\ Packets(current.main) \cap rest = {}
    BY <1>2, <2>3
  <2>5. History(runData', Ended(runData'), rest \cup new)
    BY <1>7, <1>8, <1>9, <2>2, <2>4, HistoryAfterRun
  <2> QED
    BY <1>6, <2>3, <2>5
<1>14. (\A m \in Node \ Tools : ~RedoneIn(stack', runData', m)) /\ RunsIn(stack', runData') = Ended(runData')
  <2>1. HeldS(stack') \subseteq Held(stack', waiting')
    BY DEF Held
  <2> QED
    BY <1>6, <1>8, <1>13, <2>1, Unredone
<1>15. Ended(runData') = IF n \in Tools THEN Ended(runData) ELSE [Ended(runData) EXCEPT ![n] = @ + 1]
  <2>1. \A m \in Node \ Tools : m # n => runData'[m] = runData[m]
    BY <1>7 DEF RunAdded
  <2>2. n \notin Tools => Len(runData'[n]) = Len(runData[n]) + 1
    BY <1>7 DEF RunAdded
  <2> QED
    BY <2>1, <2>2 DEF Ended
<1>16. InTurn(stack', Ended(runData'))
  <2>1. \A m \in Node \ Tools : m # current.node => Ended(runData')[m] = Ended(runData)[m]
    BY <1>3, <1>7 DEF RunAdded, Ended
  <2> QED
    BY <2>1, LeavesInTurn
<1>17. Settled(stack', Null, runData', status) /\ Paused(stack', runData', status)
  <2>1. status \notin {"waiting", "error"}
    BY DEF Stops
  <2> QED
    BY <1>14, <2>1 DEF Settled, Paused
<1>18. LineOf(stack', current') = stack'
  BY <1>1 DEF LineOf
<1>19. Flows(stack', current', waiting', runData', status')
  BY <1>1, <1>6, <1>13, <1>14, <1>16, <1>17, <1>18 DEF Flows
<1>20. Once(waiting')
  BY <1>6 DEF Sound
<1>21. CASE n \in Tools
  <2>1. Packets(current.main) = {}
    BY <1>2, <1>3, <1>21 DEF Lawful
  <2>2. Held(LineOf(stack', current'), waiting') = Held(LineOf(stack, current), waiting)
    BY <1>2, <1>6, <1>9, <1>18, <1>21, <2>1
  <2>3. RunsIn(stack', runData') = RunsIn(stack, runData)
    BY <1>2, <1>14, <1>15, <1>21
  <2>4. UNCHANGED Flow!flowVars
    BY <1>1, <1>2, <1>20, <2>2, <2>3, Stutters
  <2>5. NodeRuns
    BY <1>3, <1>21, <2>3 DEF NodeRuns
  <2> QED
    BY <1>1, <1>19, <2>4, <2>5, FlowsStays DEF FlowStep
<1>22. CASE n \notin Tools
  <2>1. PICK rest : rest = Held(stack, waiting)
    OBVIOUS
  <2>2. Held(LineOf(stack', current'), waiting') = rest \cup new
    BY <1>6, <1>18, <2>1
  <2>3. new = NewPackets(current.node, filled, RunsIn(stack, runData)[current.node])
    BY <1>2, <1>3, <1>5, <1>10, <1>22
  <2>4. RunsIn(stack', runData') = [RunsIn(stack, runData) EXCEPT ![current.node] = @ + 1]
    BY <1>2, <1>3, <1>14, <1>15, <1>22
  <2>5. new \cap (Packets(current.main) \cup rest) = {} /\ Packets(current.main) \cap rest = {}
        /\ Held(LineOf(stack, current), waiting) = Packets(current.main) \cup rest /\ current.node \notin Tools
    BY <1>2, <1>3, <1>6, <1>22, <2>1
  <2>6. Flow!FlowNext
    <3>1. PICK x \in Items : x = current
      BY <1>2
    <3>2. /\ Lawful(x) /\ x.node \notin Tools /\ Packets(x.main) \cap rest = {}
          /\ Held(LineOf(stack, current), waiting) = Packets(x.main) \cup rest
          /\ new = NewPackets(x.node, filled, RunsIn(stack, runData)[x.node])
          /\ new \cap (Packets(x.main) \cup rest) = {}
          /\ OneMore(RunsIn(stack', runData'), RunsIn(stack, runData), x.node)
      BY <1>2, <2>3, <2>4, <2>5, <3>1 DEF OneMore
    <3> QED
      BY <1>1, <1>2, <1>20, <2>2, <3>2, NodeFires
  <2>7. NodeRuns
    BY <1>3, <1>22, <2>4 DEF NodeRuns, OneMore
  <2> QED
    BY <1>1, <1>19, <2>6, <2>7, FlowsStays DEF FlowStep
<1> QED
  BY <1>21, <1>22

-----------------------------------------------------------------------------
(* The refinement                                                          *)

(* Initially the trigger's packet is held, and no node has run.            *)
LEMMA InitFlows ==
  ASSUME Init, Typed, WellConnected
  PROVE  FlowInv /\ Flow!FlowInit
<1>1. /\ stack = <<Item(wf.trigger, <<Trigger>>)>> /\ waiting = <<>>
      /\ runData = [n \in Node |-> <<>>] /\ current = Null /\ status = "running"
  BY DEF Init
<1>2. PICK x : x = Item(wf.trigger, <<Trigger>>)
  OBVIOUS
<1>3. x.main = <<Trigger>> /\ x.run = Null /\ x.node = wf.trigger
  BY <1>2 DEF Item, ItemOf
<1>4. PICK l : l = LineOf(stack, current)
  OBVIOUS
<1>5. l = <<x>> /\ Len(l) = 1 /\ l[1] = x
  BY <1>1, <1>2, <1>4 DEF LineOf
<1>6. Packets(x.main) = {Trigger}
  BY <1>3, Unmarked DEF Packets
<1>7. HeldS(l) = {Trigger}
  BY <1>5, <1>6 DEF HeldS
<1>8. \A n : EntriesOf(waiting, n) = <<>>
  BY <1>1 DEF EntriesOf
<1>9. HeldW(waiting) = {}
  BY <1>8 DEF HeldW, HeldE
<1>10. Held(l, waiting) = {Trigger}
  BY <1>7, <1>9 DEF Held
<1>11. Sound(l, waiting)
  <2>1. Lawful(x)
    BY <1>3 DEF Lawful, WellConnected
  <2>2. \A i \in 1..Len(l) : i = 1
    BY <1>5
  <2>3. Once(waiting) /\ \A n \in Node : SoundE(n, EntriesOf(waiting, n))
    BY <1>1, <1>8 DEF Once, SoundE
  <2> QED
    BY <1>5, <1>9, <2>1, <2>2, <2>3 DEF Sound
<1>12. \A n \in Node : runData[n] = <<>> /\ ~RedoneIn(stack, runData, n)
  BY <1>1 DEF RedoneIn
<1>13. RunsIn(stack, runData) = [n \in Node |-> 0]
  BY <1>12 DEF RunsIn
<1>14. History(runData, RunsIn(stack, runData), Held(l, waiting))
  <2>1. \A n \in Node : RunsIn(stack, runData)[n] = 0
    BY <1>13
  <2>2. 1..0 = {}
    OBVIOUS
  <2> QED
    BY <1>10, <2>1, <2>2 DEF History, Counted
<1>15. InTurn(l, RunsIn(stack, runData))
  BY <1>3, <1>5 DEF InTurn
<1>16. Settled(stack, current, runData, status) /\ Paused(stack, runData, status)
  BY <1>1, <1>12 DEF Settled, Paused
<1>17. FlowInv
  BY <1>4, <1>11, <1>14, <1>15, <1>16 DEF FlowInv, Flows
<1>18. InFlight = {Trigger}
  BY <1>4, <1>10, <1>11, InFlightIs DEF Sound
<1>19. Runs = [n \in Node |-> 0]
  BY <1>13, RunsAre
<1> QED
  BY <1>17, <1>18, <1>19 DEF Flow!FlowInit

(* No packet is added to an entry that has one already on this input.      *)
NothingOverwritten ==
  \A outs \in SUBSET Nat :
    /\ current # Null /\ current.node # destination
    /\ Finish(outs)
    => ~ChildrenOverwrite(current.node, outs, RunIndex, stack)

(* Every step is one of Dataflow, or none.                                 *)
LEMMA StepFlows ==
  ASSUME Typed, Typed', Stops, Given(stack, current), WellConnected, FlowInv,
         [Next]_vars, [NothingOverwritten]_vars
  PROVE  FlowInv' /\ FlowStep
<1>1. CASE UNCHANGED vars
  <2>1. UNCHANGED <<wf, stack, waiting, runData, current, status, filter>>
    BY <1>1 DEF vars
  <2>2. UNCHANGED Flow!flowVars
    BY <2>1, Stutters DEF FlowInv, Flows, Sound
  <2>3. Flows(stack', current', waiting', runData', status')
    BY <2>1 DEF FlowInv
  <2> QED
    BY <2>1, <2>2, <2>3, FlowsStays DEF FlowStep
<1>2. CASE ~UNCHANGED vars /\ Returns
  <2>1. PICK outs \in SUBSET Nat : Finish(outs) /\ current # Null
    BY <1>2 DEF Returns, Executing
  <2>2. NothingOverwritten
    BY <1>2
  <2>3. current.node # destination => ~ChildrenOverwrite(current.node, outs, RunIndex, stack)
    BY <2>1, <2>2 DEF NothingOverwritten
  <2> QED
    BY <2>1, <2>3, FinishFlows
<1>3. CASE Next
  BY <1>1, <1>2, <1>3, StepKinds, ShiftFlows, EndsBranchFlows, RequestsFlows, QuietFlows,
     FailsFlows, WaitsFlows, ResumeFlows, RetryFlows
<1> QED
  BY <1>1, <1>3

(* The engine implements Dataflow: each packet reaches one run of the node *)
(* it is for, is consumed once, and is not made up, however nodes merge,   *)
(* wait, fail, are retried or ask for tools, and however the execution is  *)
(* resumed, retried or cancelled. This takes a workflow without two equal  *)
(* connections, whose agents have one input, and whose trigger is no tool. *)
(* It also takes that addNodeToBeExecuted never finds an entry under the   *)
(* key that it chooses for a new one: what this entry holds would be lost. *)
THEOREM DataReachesItsRun ==
  Spec /\ WellConnected /\ [][NothingOverwritten]_vars => ImplementsDataflow
<1> DEFINE I == Typed /\ Stops /\ Given(stack, current) /\ WellConnected /\ FlowInv
<1>1. Init /\ WellConnected => I /\ Flow!FlowInit
  BY InitTyped, InitGiven, InitFlows
<1>2. I /\ [Next]_vars /\ [NothingOverwritten]_vars => I' /\ [Flow!FlowNext]_Flow!flowVars
  <2> SUFFICES ASSUME Typed, Stops, Given(stack, current), WellConnected, FlowInv,
                      [Next]_vars, [NothingOverwritten]_vars
               PROVE  I' /\ [Flow!FlowNext]_Flow!flowVars
    OBVIOUS
  <2>1. Typed' /\ Stops'
    BY StepTyped
  <2>2. Given(stack, current)'
    BY StepGiven DEF Given
  <2>3. WellConnected'
    <3>1. UNCHANGED wf
      BY StepKeepsWorkflow
    <3> QED
      BY <3>1, SameWorkflow DEF WellConnected, ConnectionsDiffer
  <2>4. FlowInv' /\ FlowStep
    BY <2>1, StepFlows
  <2> QED
    BY <2>1, <2>2, <2>3, <2>4 DEF FlowStep
<1> HIDE DEF I
<1> QED
  BY <1>1, <1>2, PTL DEF Spec, ImplementsDataflow, Flow!FlowSpec

-----------------------------------------------------------------------------
(* Workflows in which nothing is overwritten                               *)

(* Main connections go forwards, and no two lead to the same input.        *)
FeedForward ==
  /\ \E depth \in [Node -> Nat] : \A c \in MainConns : depth[c.from] < depth[c.to]
  /\ \A c, d \in MainConns : c.to = d.to /\ c.in = d.in => c = d

(* The nodes with an item in line, and those that also have run. Tools are *)
(* left out.                                                               *)
NodesIn(l)       == {l[i].node : i \in 1..Len(l)} \ Tools
Started(l, runs) == {n \in Node \ Tools : n \in NodesIn(l) \/ runs[n] > 0}

(* A node is in line once, waits under the key 0, or has run, and is in one*)
(* of these places only. Nothing can come any more to one that has started,*)
(* since the nodes before it are neither in line nor waiting.              *)
Placed(l, w, runs) ==
  /\ \A i, j \in 1..Len(l) : l[i].node = l[j].node /\ l[i].node \notin Tools => i = j
  /\ \A n \in NodesIn(l) : n \notin NodesOf(w) /\ runs[n] = 0
  /\ \A n \in NodesOf(w) : n \notin Tools /\ runs[n] = 0 /\ DOMAIN EntriesOf(w, n) = {0}
  /\ \A n \in Started(l, runs) : ParentNodes(n) \cap (NodesIn(l) \cup NodesOf(w)) = {}
  /\ \A n \in Node \ Tools : runs[n] <= 1

(* The connections D do not lead to what has started, or before it.        *)
Ahead(l, runs, D) ==
  \A c \in D : \A n \in Started(l, runs) : c.to \notin ParentNodes(n) \cup {n}

(* What is before a node is before one that is connected to it, or is that *)
(* one.                                                                    *)
LEMMA ParentsAreReached ==
  ASSUME wf \in Workflows, NEW n \in Node
  PROVE  \A m \in ParentNodes(n) :
           \E c \in MainConns : c.to = n /\ m \in ParentNodes(c.from) \cup {c.from}
<1> DEFINE S == {n} \cup {m \in Node : \E c \in MainConns : c.to = n /\ m \in ParentNodes(c.from) \cup {c.from}}
<1>1. \A c \in MainConns : c.from \in Node /\ c.to \in Node
  BY Connections DEF Connection
<1>2. ASSUME NEW d \in MainConns, d.to \in S
      PROVE  d.from \in S
  <2>1. CASE d.to = n
    BY <1>1, <2>1
  <2>2. CASE d.to # n
    <3>1. PICK c \in MainConns : c.to = n /\ d.to \in ParentNodes(c.from) \cup {c.from}
      BY <1>2, <2>2
    <3>2. d.from \in ParentNodes(c.from) \cup {c.from}
      BY <1>1, <3>1, ParentsAreClosure DEF Closed
    <3> QED
      BY <1>1, <3>1, <3>2
  <2> QED
    BY <2>1, <2>2
<1>3. Closed(S) /\ n \in S
  BY <1>2 DEF Closed
<1>4. n \notin ParentNodes(n)
  BY DEF ParentNodes
<1>5. \A m \in S : m = n \/ \E c \in MainConns : c.to = n /\ m \in ParentNodes(c.from) \cup {c.from}
  OBVIOUS
<1> HIDE DEF S
<1> QED
  BY <1>3, <1>4, <1>5, ParentsAreClosure

(* A connection leads behind the node it comes from: what it leads to, or  *)
(* before, has that node before it.                                        *)
LEMMA LeadsBehind ==
  ASSUME wf \in Workflows, FeedForward, NEW c \in MainConns, NEW n \in Node, c.to \in ParentNodes(n) \cup {n}
  PROVE  c.from \in ParentNodes(n)
<1>1. c.from \in Node /\ c.to \in Node
  BY Connections DEF Connection
<1>2. PICK depth \in [Node -> Nat] : \A d \in MainConns : depth[d.from] < depth[d.to]
  BY DEF FeedForward
<1>3. c.from \in ParentNodes(n) \cup {n}
  BY ParentsAreClosure DEF Closed
<1>4. depth[c.to] = depth[n] \/ depth[c.to] < depth[n]
  BY <1>2, ParentsAreBefore
<1>5. depth[c.from] < depth[c.to] /\ depth[c.from] \in Nat /\ depth[c.to] \in Nat /\ depth[n] \in Nat
  BY <1>1, <1>2
<1>6. c.from # n
  BY <1>4, <1>5
<1> QED
  BY <1>3, <1>6

(* A node that waits has more inputs than one.                             *)
LEMMA WaitersMerge ==
  ASSUME wf \in Workflows, NEW w \in Seq(Waits), NEW n \in NodesOf(w)
  PROVE  n \in Node /\ NumberOfInputs(n) > 1
<1>1. PICK i \in DOMAIN w : w[i].node = n
  BY DEF NodesOf
<1>2. w[i] \in Waits
  BY <1>1
<1>3. PICK k \in DOMAIN w[i].entries : Partial(n, w[i].entries[k])
  BY <1>1, <1>2 DEF Waits
<1>4. PICK main \in Seq(Data) : main = w[i].entries[k]
  BY <1>3 DEF Partial
<1>5. Len(main) = NumberOfInputs(n) /\ Packets(main) # {} /\ Null \in ToSet(main)
  BY <1>3, <1>4 DEF Partial
<1>6. PICK a \in 1..Len(main) : main[a] = Null
  BY <1>5, SetOf
<1>7. PICK p \in Packets(main) : TRUE
  BY <1>5
<1>8. p \in ToSet(main) /\ p # Null
  BY <1>7, PacketsOf
<1>9. PICK b \in 1..Len(main) : main[b] = p
  BY <1>8, SetOf
<1>10. a # b /\ Len(main) \in Nat
  BY <1>6, <1>8, <1>9
<1>11. Len(main) > 1
  BY <1>6, <1>9, <1>10
<1>12. n \in Node
  BY <1>1, <1>2 DEF Waits
<1> QED
  BY <1>5, <1>11, <1>12

(* The nodes in line when one more item comes first                        *)
LEMMA OneMoreInLine ==
  ASSUME NEW x \in Items, NEW s \in Seq(Items), NEW l, First(l, x, s)
  PROVE  /\ l \in Seq(Items) /\ Len(l) = Len(s) + 1 /\ l[1] = x
         /\ \A i \in 1..Len(s) : l[i + 1] = s[i]
         /\ \A i \in 1..Len(l) : i = 1 \/ (i - 1 \in 1..Len(s) /\ l[i] = s[i - 1])
         /\ NodesIn(l) = NodesIn(s) \cup ({x.node} \ Tools)
<1>1. l \in Seq(Items) /\ Len(l) = Len(s) + 1 /\ l[1] = x /\ Len(s) \in Nat /\ 1 \in 1..Len(l)
  BY DEF First
<1>2. \A i \in 1..Len(s) : l[i + 1] = s[i] /\ i + 1 \in 1..Len(l)
  BY DEF First
<1>3. \A i \in 1..Len(l) : i = 1 \/ (i - 1 \in 1..Len(s) /\ l[i] = s[i - 1])
  BY <1>1, <1>2
<1>4. {l[i].node : i \in 1..Len(l)} = {s[i].node : i \in 1..Len(s)} \cup {x.node}
  <2> DEFINE here == {l[i].node : i \in 1..Len(l)}
             rest == {s[i].node : i \in 1..Len(s)}
  <2>1. ASSUME NEW m \in here
        PROVE  m \in rest \cup {x.node}
    <3>1. PICK i \in 1..Len(l) : m = l[i].node
      OBVIOUS
    <3> QED
      BY <1>1, <1>3, <3>1
  <2>2. ASSUME NEW m \in rest
        PROVE  m \in here
    <3>1. PICK i \in 1..Len(s) : m = s[i].node
      OBVIOUS
    <3> QED
      BY <1>2, <3>1
  <2>3. x.node \in here
    BY <1>1
  <2> HIDE DEF here, rest
  <2>4. here = rest \cup {x.node}
    BY <2>1, <2>2, <2>3
  <2> QED
    BY <2>4 DEF here, rest
<1>5. NodesIn(l) = NodesIn(s) \cup ({x.node} \ Tools)
  BY <1>4 DEF NodesIn
<1> QED
  BY <1>1, <1>2, <1>3, <1>5

(* No node gets in line: all stay where they are allowed to be.            *)
LEMMA ShiftedPlaced ==
  ASSUME NEW l \in Seq(Items), NEW t \in Seq(Items), Shifted(t, l), NEW w, NEW runs, Placed(l, w, runs)
  PROVE  Placed(t, w, runs) /\ NodesIn(t) \subseteq NodesIn(l)
<1>1. PICK d \in Int : \A i \in 1..Len(t) :
        t[i].node \notin Tools => i + d \in 1..Len(l) /\ t[i].node = l[i + d].node
  BY DEF Shifted
<1>2. NodesIn(t) \subseteq NodesIn(l)
  BY <1>1 DEF NodesIn
<1>3. Started(t, runs) \subseteq Started(l, runs)
  BY <1>2 DEF Started
<1>4. ASSUME NEW i \in 1..Len(t), NEW j \in 1..Len(t), t[i].node = t[j].node, t[i].node \notin Tools
      PROVE  i = j
  <2>1. /\ i + d \in 1..Len(l) /\ t[i].node = l[i + d].node
        /\ j + d \in 1..Len(l) /\ t[j].node = l[j + d].node
    BY <1>1, <1>4
  <2>2. i + d = j + d
    BY <1>4, <2>1 DEF Placed
  <2>3. i \in Int /\ j \in Int
    OBVIOUS
  <2> QED
    BY <2>2, <2>3
<1> QED
  BY <1>2, <1>3, <1>4 DEF Placed

(* n does not wait in v; the other nodes wait as they do in w.             *)
WaitsNoMore(v, w, n) ==
  /\ NodesOf(v) = NodesOf(w) \ {n}
  /\ \A m : m # n => EntriesOf(v, m) = EntriesOf(w, m)

(* An item of n may come: n has not started, nor has what comes after it,  *)
(* and what is before n is neither in line nor waiting.                    *)
MayCome(n, s, w, runs) ==
  /\ n \in Node \ Tools /\ n \notin Started(s, runs)
  /\ \A m \in Started(s, runs) : n \notin ParentNodes(m)
  /\ ParentNodes(n) \cap (NodesIn(s) \cup NodesOf(w)) = {}

(* So it may, and then n has started.                                      *)
LEMMA ItemComes ==
  ASSUME NEW x \in Items, NEW s \in Seq(Items), NEW l, First(l, x, s), NEW w, NEW v,
         NEW runs \in [Node -> Nat], Placed(s, w, runs), MayCome(x.node, s, w, runs), WaitsNoMore(v, w, x.node)
  PROVE  Placed(l, v, runs) /\ Started(l, runs) = Started(s, runs) \cup {x.node}
<1>1. PICK n \in Node \ Tools : n = x.node
  BY DEF MayCome
<1>2. NodesIn(l) = NodesIn(s) \cup {n}
  BY <1>1, OneMoreInLine
<1>3. Started(l, runs) = Started(s, runs) \cup {n}
  BY <1>1, <1>2 DEF Started
<1>4. n \notin NodesIn(s) /\ runs[n] = 0
  BY <1>1 DEF MayCome, Started
<1>5. ASSUME NEW i \in 1..Len(l), NEW j \in 1..Len(l), l[i].node = l[j].node, l[i].node \notin Tools
      PROVE  i = j
  <2>1. /\ l[1] = x
        /\ i = 1 \/ (i - 1 \in 1..Len(s) /\ l[i] = s[i - 1])
        /\ j = 1 \/ (j - 1 \in 1..Len(s) /\ l[j] = s[j - 1])
    BY OneMoreInLine
  <2>2. \A k \in 1..Len(s) : s[k].node # n
    BY <1>1, <1>4 DEF NodesIn
  <2>3. CASE i = 1 \/ j = 1
    BY <1>1, <1>5, <2>1, <2>2, <2>3
  <2>4. CASE i # 1 /\ j # 1
    <3>1. i - 1 = j - 1
      BY <1>5, <2>1, <2>4 DEF Placed
    <3>2. i \in Int /\ j \in Int
      OBVIOUS
    <3> QED
      BY <3>1, <3>2
  <2> QED
    BY <2>3, <2>4
<1>6. NodesOf(v) \subseteq NodesOf(w) /\ n \notin NodesOf(v)
  BY <1>1 DEF WaitsNoMore
<1>7. \A m \in NodesIn(l) : m \notin NodesOf(v) /\ runs[m] = 0
  BY <1>2, <1>4, <1>6 DEF Placed
<1>8. \A m \in NodesOf(v) : m \notin Tools /\ runs[m] = 0 /\ DOMAIN EntriesOf(v, m) = {0}
  BY <1>1, <1>6 DEF Placed, WaitsNoMore
<1>9. n \notin ParentNodes(n)
  BY DEF ParentNodes
<1>10. \A m \in Started(l, runs) : ParentNodes(m) \cap (NodesIn(l) \cup NodesOf(v)) = {}
  <2>1. \A m \in Started(s, runs) : n \notin ParentNodes(m) /\ ParentNodes(m) \cap (NodesIn(s) \cup NodesOf(w)) = {}
    BY <1>1 DEF MayCome, Placed
  <2>2. ParentNodes(n) \cap (NodesIn(s) \cup NodesOf(w)) = {}
    BY <1>1 DEF MayCome
  <2> QED
    BY <1>2, <1>3, <1>6, <1>9, <2>1, <2>2
<1> QED
  BY <1>1, <1>3, <1>5, <1>7, <1>8, <1>10 DEF Placed

(* A packet has come from a run that is over.                              *)
AllCounted(held, runs) == \A p \in held : Counted(p, runs)

(* Nothing that is held has come over these connections.                   *)
NoneFrom(held, D) == \A p \in held : p \in Packet => p.conn \notin D

(* A node that waits under the key 0 at most has its entry free for what   *)
(* comes over c, if nothing that is held has come over c.                  *)
LEMMA EntryIsFree ==
  ASSUME wf \in Workflows, FeedForward, NEW c \in MainConns, NEW q, q.w \in Seq(Waits),
         SoundE(c.to, EntriesOf(q.w, c.to)), DOMAIN EntriesOf(q.w, c.to) \subseteq {0},
         NoneFrom(HeldE(EntriesOf(q.w, c.to)), {c})
  PROVE  ~Overwrites(q, c) /\ \A k, old : Takes(EntriesOf(q.w, c.to), k, old, c) => k = 0
<1>1. PICK entries : entries = EntriesOf(q.w, c.to)
  OBVIOUS
<1>2. /\ DOMAIN entries \subseteq {0}
      /\ \A k \in DOMAIN entries : entries[k] \in Seq(Data) /\ Partial(c.to, entries[k]) /\ Fits(c.to, entries[k])
  BY <1>1, EntriesKnown DEF SoundE
<1>3. ASSUME NEW k \in DOMAIN entries, HasData(entries[k], c.in)
      PROVE  FALSE
  <2>1. PICK main \in Seq(Data) : main = entries[k]
    BY <1>2
  <2>2. PICK i \in 1..Len(main) : i = c.in + 1
    BY <1>3, <2>1 DEF HasData
  <2>3. main[i] \notin {Null, Hole}
    BY <1>3, <2>1, <2>2 DEF HasData
  <2>4. main[i] # Empty
    <3>1. main[i] \in ToSet(main)
      BY SetOf
    <3> QED
      BY <1>2, <2>1, <3>1 DEF Partial
  <2>5. Arrived(main[i], c.to, i)
    BY <1>2, <2>1, <2>3, <2>4 DEF Fits
  <2>6. PICK p \in Packet : p = main[i] /\ p.conn \in MainConns /\ p.conn.to = c.to /\ p.conn.in = i - 1
    BY <2>5 DEF Arrived
  <2>7. p.conn.in = c.in
    <3>1. c.in \in Nat
      BY Connections DEF Connection
    <3> QED
      BY <2>2, <2>6, <3>1
  <2>8. p.conn = c
    BY <2>6, <2>7 DEF FeedForward
  <2>9. p \in Packets(main)
    BY <1>2, <2>1, <2>5, <2>6, FitsPackets
  <2>10. p \in HeldE(entries)
    BY <2>1, <2>9 DEF HeldE
  <2> QED
    BY <1>1, <2>8, <2>10 DEF NoneFrom
<1>4. ~Overwrites(q, c)
  <2>1. CASE DOMAIN entries = {}
    <3>1. Cardinality(DOMAIN entries) = 0
      BY <2>1, FS_EmptySet
    <3> QED
      BY <1>1, <2>1 DEF Overwrites
  <2>2. CASE DOMAIN entries # {}
    BY <1>1, <1>3, <2>2 DEF Overwrites
  <2> QED
    BY <2>1, <2>2
<1>5. ASSUME NEW k, NEW old, Takes(entries, k, old, c)
      PROVE  k = 0
  <2>1. PICK lacking : lacking = {j \in DOMAIN entries : ~HasData(entries[j], c.in)}
    OBVIOUS
  <2>2. lacking = DOMAIN entries
    BY <1>3, <2>1
  <2>3. k = IF lacking # {} THEN Least(lacking) ELSE Cardinality(DOMAIN entries)
    BY <1>5, <2>1 DEF Takes
  <2>4. CASE lacking = {}
    BY <2>2, <2>3, <2>4, FS_EmptySet
  <2>5. CASE lacking # {}
    <3>1. lacking \in SUBSET Nat
      BY <1>2, <2>2
    <3>2. Least(lacking) \in lacking
      BY <2>5, <3>1, LeastNatural DEF Least
    <3> QED
      BY <1>2, <2>2, <2>3, <2>5, <3>2
  <2> QED
    BY <2>4, <2>5
<1> QED
  BY <1>1, <1>4, <1>5

(* When every input of n has received something, whatever is connected to n*)
(* has run.                                                                *)
LEMMA AllHaveRun ==
  ASSUME wf \in Workflows, FeedForward, NEW x \in Items, Full(x), NEW runs \in [Node -> Nat],
         AllCounted(Packets(x.main), runs)
  PROVE  \A c \in MainConns : c.to = x.node => /\ runs[c.from] > 0
                                               /\ \E p \in Packets(x.main) : p \in Packet /\ p.conn = c
<1> SUFFICES ASSUME NEW c \in MainConns, c.to = x.node
             PROVE  /\ runs[c.from] > 0
                    /\ \E p \in Packets(x.main) : p \in Packet /\ p.conn = c
  OBVIOUS
<1>1. PICK main \in Seq(Data) : main = x.main
  BY DEF Items
<1>2. Len(main) = NumberOfInputs(c.to) /\ \A i \in 1..Len(main) : Arrived(main[i], c.to, i)
  BY <1>1 DEF Full
<1>3. c.in \in Nat /\ c.from \in Node /\ c.in < NumberOfInputs(c.to) /\ NumberOfInputs(c.to) \in Nat
  BY Connections, InputsBound DEF Connection
<1>4. PICK i \in 1..Len(main) : i = c.in + 1
  BY <1>2, <1>3
<1>5. PICK p \in Packet : p = main[i] /\ p.conn \in MainConns /\ p.conn.to = c.to /\ p.conn.in = i - 1
  BY <1>2 DEF Arrived
<1>6. p.conn = c
  <2>1. p.conn.in = c.in
    BY <1>3, <1>4, <1>5
  <2> QED
    BY <1>5, <2>1 DEF FeedForward
<1>7. p \in Packets(main)
  <2>1. Fits(c.to, main)
    BY <1>2 DEF Fits
  <2> QED
    BY <1>2, <1>5, <2>1, FitsPackets
<1>8. p # Trigger /\ Counted(p, runs)
  BY <1>1, <1>7, Unmarked DEF AllCounted
<1>9. p.run < runs[c.from] /\ p.run \in Nat /\ runs[c.from] \in Nat
  BY <1>3, <1>6, <1>8 DEF Counted, Packet
<1> QED
  BY <1>1, <1>6, <1>7, <1>9

(* What comes over c, ahead of what has started, overwrites nothing: it    *)
(* waits, or completes the item of a node that comes after all that have   *)
(* run before it.                                                          *)
LEMMA PacketPlaced ==
  ASSUME wf \in Workflows, FeedForward, NEW s \in Seq(Items), NEW q \in Grown(s), Sound(q.s, q.w),
         NEW c \in MainConns, NEW packet \in Packet, packet.conn = c,
         NEW held, held = Held(q.s, q.w), NEW D \in SUBSET MainConns, c \notin D, NoneFrom(held, D \cup {c}),
         NEW runs \in [Node -> Nat], AllCounted(held \cup {packet}, runs),
         Placed(q.s, q.w, runs), Ahead(q.s, runs, D \cup {c}),
         NEW r, r = AddNodeToBeExecuted(q, c, packet)
  PROVE  ~Overwrites(q, c) /\ Placed(r.s, r.w, runs) /\ Ahead(r.s, runs, D)
<1>1. q.s \in Seq(Items) /\ q.w \in Seq(Waits)
  BY DEF Grown
<1>2. PICK n \in Node \ Tools : n = c.to
  BY Connections, NoConnectionOfTools DEF Connection
<1>3. n \notin Started(q.s, runs) /\ \A m \in Started(q.s, runs) : n \notin ParentNodes(m)
  BY <1>2 DEF Ahead
<1>4. n \notin NodesIn(q.s) /\ runs[n] = 0
  BY <1>3 DEF Started
<1>5. \A m \in NodesOf(q.w) : m \notin Tools /\ runs[m] = 0 /\ DOMAIN EntriesOf(q.w, m) = {0}
  BY DEF Placed
<1>6. DOMAIN EntriesOf(q.w, n) \subseteq {0}
  <2>1. CASE n \in NodesOf(q.w)
    BY <1>5, <2>1
  <2>2. CASE n \notin NodesOf(q.w)
    <3>1. Once(q.w) /\ DOMAIN q.w = 1..Len(q.w)
      BY <1>1 DEF Sound
    <3>2. EntriesOf(q.w, n) = <<>>
      BY <2>2, <3>1, EntriesAre
    <3> QED
      BY <3>2
  <2> QED
    BY <2>1, <2>2
<1>7. ~Overwrites(q, c) /\ \A k, old : Takes(EntriesOf(q.w, n), k, old, c) => k = 0
  <2>1. SoundE(n, EntriesOf(q.w, n)) /\ HeldE(EntriesOf(q.w, n)) \subseteq held
    BY DEF Sound, Held, HeldW
  <2>2. NoneFrom(HeldE(EntriesOf(q.w, n)), {c})
    BY <2>1 DEF NoneFrom
  <2> QED
    BY <1>1, <1>2, <1>6, <2>1, <2>2, EntryIsFree
<1>8. packet \notin held
  BY DEF NoneFrom
<1>9. /\ Held(r.s, r.w) = held \cup {packet} /\ Sound(r.s, r.w)
      /\ (NumberOfInputs(c.to) > 1 /\ Rests(q, r, c)) \/ Joins(q, r, c)
  BY <1>7, <1>8, PacketAdded
<1>10. CASE Rests(q, r, c)
  <2>1. PICK k, old, more :
          /\ Takes(EntriesOf(q.w, n), k, old, c)
          /\ DOMAIN more = DOMAIN EntriesOf(q.w, n) \cup {k}
          /\ r.s = q.s /\ Replaced(r.w, q.w, n, more)
    BY <1>2, <1>10 DEF Rests
  <2>2. DOMAIN more = {0}
    BY <1>6, <1>7, <2>1
  <2>3. /\ EntriesOf(r.w, n) = more /\ NodesOf(r.w) = NodesOf(q.w) \cup {n}
        /\ \A m : m # n => EntriesOf(r.w, m) = EntriesOf(q.w, m)
    BY <2>1, <2>2 DEF Replaced
  <2>4. \A m \in NodesIn(r.s) : m \notin NodesOf(r.w) /\ runs[m] = 0
    BY <1>4, <2>1, <2>3 DEF Placed
  <2>5. \A m \in NodesOf(r.w) : m \notin Tools /\ runs[m] = 0 /\ DOMAIN EntriesOf(r.w, m) = {0}
    BY <1>2, <1>4, <1>5, <2>2, <2>3
  <2>6. \A m \in Started(r.s, runs) : ParentNodes(m) \cap (NodesIn(r.s) \cup NodesOf(r.w)) = {}
    BY <1>3, <2>1, <2>3 DEF Placed
  <2>7. Placed(r.s, r.w, runs)
    BY <2>1, <2>4, <2>5, <2>6 DEF Placed
  <2>8. Ahead(r.s, runs, D)
    BY <2>1 DEF Ahead
  <2> QED
    BY <1>7, <2>7, <2>8
<1>11. CASE Joins(q, r, c)
  <2>1. PICK x \in Items :
          /\ x.node = n /\ Full(x) /\ First(r.s, x, q.s)
          /\ \/ NumberOfInputs(n) <= 1 /\ r.w = q.w
             \/ /\ NumberOfInputs(n) > 1
                /\ \E k, old : /\ Takes(EntriesOf(q.w, n), k, old, c) /\ k \in DOMAIN EntriesOf(q.w, n)
                               /\ Replaced(r.w, q.w, n, Without(EntriesOf(q.w, n), k))
    BY <1>2, <1>11 DEF Joins
  <2>2. WaitsNoMore(r.w, q.w, n)
    <3>1. CASE NumberOfInputs(n) <= 1 /\ r.w = q.w
      <4>1. n \notin NodesOf(q.w)
        <5>1. NumberOfInputs(n) \in Nat
          BY InputsBound
        <5>2. ~(NumberOfInputs(n) > 1)
          BY <3>1, <5>1
        <5> QED
          BY <1>1, <5>2, WaitersMerge
      <4> QED
        BY <3>1, <4>1 DEF WaitsNoMore
    <3>2. CASE \E k, old : /\ Takes(EntriesOf(q.w, n), k, old, c) /\ k \in DOMAIN EntriesOf(q.w, n)
                           /\ Replaced(r.w, q.w, n, Without(EntriesOf(q.w, n), k))
      <4>1. PICK k : k \in DOMAIN EntriesOf(q.w, n) /\ Replaced(r.w, q.w, n, Without(EntriesOf(q.w, n), k))
        BY <3>2
      <4>2. DOMAIN Without(EntriesOf(q.w, n), k) = {}
        BY <1>6, <4>1 DEF Without
      <4> QED
        BY <4>1, <4>2 DEF Replaced, WaitsNoMore
    <3> QED
      BY <2>1, <3>1, <3>2
  <2>3. Packets(x.main) \subseteq held \cup {packet}
    <3>1. r.s[1] = x /\ 1 \in 1..Len(r.s)
      <4>1. Len(q.s) \in Nat
        BY <1>1
      <4> QED
        BY <1>1, <2>1, <4>1, OneMoreInLine
    <3>2. Packets(x.main) \subseteq HeldS(r.s)
      BY <3>1, InLine
    <3> QED
      BY <1>9, <3>2 DEF Held
  <2>4. \A e \in MainConns : e.to = n => e.from \in Started(q.s, runs) /\ runs[e.from] > 0 /\ e \notin D
    <3>1. AllCounted(Packets(x.main), runs)
      BY <2>3 DEF AllCounted
    <3>2. \A e \in MainConns : e.to = n => /\ runs[e.from] > 0
                                           /\ \E p \in Packets(x.main) : p \in Packet /\ p.conn = e
      BY <2>1, <3>1, AllHaveRun
    <3>3. \A p \in held \cup {packet} : p \in Packet => p.conn \notin D
      BY DEF NoneFrom
    <3>4. \A e \in MainConns : e.from \in Node \ Tools
      BY Connections, NoConnectionOfTools DEF Connection
    <3> QED
      BY <2>3, <3>2, <3>3, <3>4 DEF Started
  <2>5. \A m \in ParentNodes(n) :
          \E e \in MainConns : e.to = n /\ m \in ParentNodes(e.from) \cup {e.from}
    BY ParentsAreReached
  <2>6. ParentNodes(n) \cap (NodesIn(q.s) \cup NodesOf(q.w)) = {}
    <3>1. SUFFICES ASSUME NEW m \in ParentNodes(n), m \in NodesIn(q.s) \cup NodesOf(q.w)
                   PROVE  FALSE
      OBVIOUS
    <3>2. PICK e \in MainConns : e.to = n /\ m \in ParentNodes(e.from) \cup {e.from}
      BY <2>5
    <3>3. e.from \in Started(q.s, runs) /\ runs[e.from] > 0
      BY <2>4, <3>2
    <3>4. m \notin ParentNodes(e.from)
      BY <3>1, <3>3 DEF Placed
    <3>5. runs[m] = 0
      BY <3>1 DEF Placed
    <3> QED
      BY <3>2, <3>3, <3>4, <3>5
  <2>7. MayCome(n, q.s, q.w, runs)
    BY <1>3, <2>6 DEF MayCome
  <2>8. Placed(r.s, r.w, runs) /\ Started(r.s, runs) = Started(q.s, runs) \cup {n}
    <3>1. PICK l, v : l = r.s /\ v = r.w
      OBVIOUS
    <3>2. PICK t \in Seq(Items), w \in Seq(Waits) : t = q.s /\ w = q.w
      BY <1>1
    <3>3. First(l, x, t) /\ Placed(t, w, runs) /\ MayCome(x.node, t, w, runs) /\ WaitsNoMore(v, w, x.node)
      BY <2>1, <2>2, <2>7, <3>1, <3>2
    <3>4. Placed(l, v, runs) /\ Started(l, runs) = Started(t, runs) \cup {x.node}
      BY <3>3, ItemComes
    <3> QED
      BY <2>1, <3>1, <3>2, <3>4
  <2>9. \A d \in D : d.to \notin ParentNodes(n) \cup {n}
    <3>1. SUFFICES ASSUME NEW d \in D, d.to \in ParentNodes(n) \cup {n}
                   PROVE  FALSE
      OBVIOUS
    <3>2. d.to # n
      BY <2>4
    <3>3. PICK e \in MainConns : e.to = n /\ d.to \in ParentNodes(e.from) \cup {e.from}
      BY <2>5, <3>1, <3>2
    <3>4. e.from \in Started(q.s, runs)
      BY <2>4, <3>3
    <3> QED
      BY <3>3, <3>4 DEF Ahead
  <2>10. Ahead(r.s, runs, D)
    BY <2>8, <2>9 DEF Ahead
  <2> QED
    BY <1>7, <2>8, <2>10
<1> QED
  BY <1>9, <1>10, <1>11

(* The connections after the first m of these                              *)
Rest(follow, m) == {wf.conns[follow[j]] : j \in m + 1 .. Len(follow)}

(* The connections of n                                                    *)
ConnsFrom(n) == {c \in MainConns : c.from = n}

(* After the first k - 1 there are c, the k-th, and the others after it.   *)
Splits(follow, n, k, c) ==
  /\ Rest(follow, k - 1) = Rest(follow, k) \cup {c} /\ c \notin Rest(follow, k)
  /\ Rest(follow, k - 1) \subseteq ConnsFrom(n)
  /\ \A j \in 1..(k - 1) : wf.conns[follow[j]] \notin Rest(follow, k - 1)

(* Each connection that is followed is there once.                         *)
LEMMA RestSplits ==
  ASSUME wf \in Workflows, ConnectionsDiffer, NEW n, NEW outs, NEW follow, follow = ConnectionsToFollow(n, outs)
  PROVE  \A k \in 1..Len(follow) : Splits(follow, n, k, wf.conns[follow[k]])
<1> SUFFICES ASSUME NEW k \in 1..Len(follow), NEW c, c = wf.conns[follow[k]]
             PROVE  Splits(follow, n, k, c)
  OBVIOUS
<1> DEFINE conn(j) == wf.conns[follow[j]]
<1>1. /\ Len(follow) \in Nat /\ \A j \in 1..Len(follow) : follow[j] \in DOMAIN wf.conns
      /\ \A j \in 1..Len(follow) : conn(j) \in MainConns /\ conn(j).from = n
      /\ Distinct(follow)
  <2>1. follow \in Seq(DOMAIN wf.conns) /\ Distinct(follow)
        /\ \A j \in 1..Len(follow) : conn(j) \in MainConns /\ conn(j).from = n
    BY FollowsConnections
  <2>2. Len(follow) \in Nat /\ \A j \in 1..Len(follow) : follow[j] \in DOMAIN wf.conns
    BY <2>1
  <2> QED
    BY <2>1, <2>2
<1>2. \A i, j \in 1..Len(follow) : conn(i) = conn(j) => i = j
  BY <1>1 DEF Distinct, ConnectionsDiffer
<1> HIDE DEF conn
<1>3. Rest(follow, k) = {conn(j) : j \in k + 1 .. Len(follow)}
  BY DEF Rest, conn
<1>4. Rest(follow, k - 1) = {conn(j) : j \in k .. Len(follow)}
  <2>1. (k - 1) + 1 = k
    OBVIOUS
  <2> QED
    BY <2>1 DEF Rest, conn
<1>5. c = conn(k) /\ k \in k .. Len(follow) /\ k .. Len(follow) = (k + 1 .. Len(follow)) \cup {k}
  BY <1>1 DEF conn
<1>6. Rest(follow, k - 1) = Rest(follow, k) \cup {c}
  BY <1>3, <1>4, <1>5
<1>7. \A j \in k + 1 .. Len(follow) : j \in 1..Len(follow) /\ j # k
  BY <1>1
<1>8. Rest(follow, k) \cup {c} \subseteq ConnsFrom(n) /\ c \notin Rest(follow, k)
  <2>1. \A j \in k + 1 .. Len(follow) : conn(j) \in ConnsFrom(n) /\ conn(j) # conn(k)
    BY <1>1, <1>2, <1>7 DEF conn, ConnsFrom
  <2>2. conn(k) \in ConnsFrom(n)
    BY <1>1 DEF conn, ConnsFrom
  <2> QED
    BY <1>3, <1>5, <2>1, <2>2
<1>9. ASSUME NEW j \in 1..(k - 1)
      PROVE  conn(j) \notin Rest(follow, k) \cup {c}
  <2>1. j \in 1..Len(follow) /\ j # k /\ j \notin k + 1 .. Len(follow)
    BY <1>1
  <2> QED
    BY <1>2, <1>3, <1>5, <1>7, <2>1
<1> QED
  BY <1>6, <1>8, <1>9 DEF conn, Splits

(* No child overwrites anything, when n has run, and what is behind it has *)
(* not started.                                                            *)
LEMMA ChildrenPlaced ==
  ASSUME wf \in Workflows, FeedForward, ConnectionsDiffer, waiting \in Seq(Waits), NEW s \in Seq(Items),
         Sound(s, waiting), NEW n \in Node, NEW outs, NEW run \in Nat, NEW runs \in [Node -> Nat], run < runs[n],
         NEW D, D = ConnsFrom(n), Ahead(s, runs, D), NoneFrom(Held(s, waiting), D),
         Placed(s, waiting, runs), AllCounted(Held(s, waiting), runs),
         NEW q, q = AddChildren(n, outs, run, s)
  PROVE  ~ChildrenOverwrite(n, outs, run, s) /\ Placed(q.s, q.w, runs)
<1>1. PICK follow : follow = ConnectionsToFollow(n, outs)
  OBVIOUS
<1>2. PICK g : g = AddingChildren(n, outs, run, s)
  OBVIOUS
<1> DEFINE conn(k) == wf.conns[follow[k]]
           packet(k) == [conn |-> conn(k), run |-> run]
<1>3. /\ Len(follow) \in Nat /\ g[0] = [s |-> s, w |-> waiting]
      /\ \A k \in 1..Len(follow) : g[k] = AddNodeToBeExecuted(g[k - 1], conn(k), packet(k))
      /\ \A k \in 0..Len(follow) : g[k] \in Grown(s)
  BY <1>1, <1>2, AddingUnfolds
<1>4. \A k \in 1..Len(follow) : conn(k) \in MainConns /\ conn(k).from = n
  BY <1>1, FollowsConnections
<1>5. \A k \in 1..Len(follow) : /\ packet(k) \in Packet /\ packet(k).conn = conn(k)
                                /\ packet(k) # Trigger /\ Counted(packet(k), runs)
  <2>1. \A k \in 1..Len(follow) : conn(k) \in Connection
    BY <1>4, Connections
  <2>2. \A k \in 1..Len(follow) : packet(k) \in Packet /\ packet(k).conn = conn(k) /\ packet(k).run = run
    BY <2>1 DEF Packet
  <2> QED
    BY <1>4, <2>2, Unmarked DEF Counted
<1>6. Held(s, waiting) \cap NewPackets(n, outs, run) = {}
  <2>1. ASSUME NEW p \in NewPackets(n, outs, run)
        PROVE  p \in Packet /\ p.conn \in D
    <3>1. PICK c \in MainConns : p = [conn |-> c, run |-> run] /\ c.from = n
      BY DEF NewPackets
    <3>2. c \in Connection
      BY Connections
    <3> QED
      BY <3>1, <3>2 DEF Packet, ConnsFrom
  <2> QED
    BY <2>1 DEF NoneFrom
<1> DEFINE Good == {k \in 0..Len(follow) : /\ Spared(g, follow, k) /\ Placed(g[k].s, g[k].w, runs)
                                           /\ Ahead(g[k].s, runs, Rest(follow, k))}
<1>7. 0 \in Good
  <2>1. 0 \in 0..Len(follow) /\ 1..0 = {} /\ g[0].s = s /\ g[0].w = waiting
    BY <1>3
  <2>2. Rest(follow, 0) \subseteq D
    BY <1>4 DEF Rest, ConnsFrom
  <2>3. Ahead(s, runs, Rest(follow, 0))
    BY <2>2 DEF Ahead
  <2> QED
    BY <2>1, <2>3 DEF Spared
<1> HIDE DEF conn, packet
<1>8. ASSUME NEW k \in 1..Len(follow), k - 1 \in Good
      PROVE  k \in Good
  <2>1. k - 1 \in 0..Len(follow) /\ k \in 0..Len(follow) /\ 1..k = 1..(k - 1) \cup {k}
    BY <1>3
  <2>2. /\ Spared(g, follow, k - 1) /\ Placed(g[k - 1].s, g[k - 1].w, runs)
        /\ Ahead(g[k - 1].s, runs, Rest(follow, k - 1))
    BY <1>8
  <2>3. PICK m \in 0..Len(follow) : m = k - 1
    BY <2>1
  <2>4. Sound(g[m].s, g[m].w) /\ Held(g[m].s, g[m].w) = Held(s, waiting) \cup SentOver(follow, run, m)
    BY <1>1, <1>2, <1>6, <2>2, <2>3, FirstAdded
  <2>5. PICK a \in Grown(s) : a = g[m]
    BY <1>3, <2>1, <2>3
  <2>6. PICK held : held = Held(a.s, a.w)
    OBVIOUS
  <2>7. PICK c \in MainConns, p \in Packet : c = conn(k) /\ p = packet(k)
    BY <1>4, <1>5 DEF conn, packet
  <2>8. PICK others : others = Rest(follow, k)
    OBVIOUS
  <2>9. /\ Rest(follow, k - 1) = others \cup {c} /\ c \notin others /\ others \cup {c} \subseteq D
        /\ \A j \in 1..(k - 1) : conn(j) \notin others \cup {c}
    <3>1. Splits(follow, n, k, wf.conns[follow[k]])
      BY <1>1, RestSplits
    <3>2. Splits(follow, n, k, c)
      BY <2>7, <3>1 DEF conn
    <3> QED
      BY <2>8, <3>2 DEF conn, Splits
  <2>10. SentOver(follow, run, m) = {packet(j) : j \in 1..(k - 1)}
    BY <2>3 DEF SentOver, packet, conn
  <2>11. \A j \in 1..(k - 1) : j \in 1..Len(follow)
    BY <1>3
  <2>12. NoneFrom(held, others \cup {c})
    <3>1. ASSUME NEW x \in SentOver(follow, run, m)
          PROVE  x.conn \notin others \cup {c}
      <4>1. PICK j \in 1..(k - 1) : x = packet(j)
        BY <2>10
      <4> QED
        BY <1>5, <2>9, <2>11, <4>1 DEF packet
    <3> QED
      BY <2>4, <2>5, <2>6, <2>9, <3>1 DEF NoneFrom
  <2>13. AllCounted(held \cup {p}, runs)
    <3>1. \A x \in SentOver(follow, run, m) : Counted(x, runs)
      BY <1>5, <2>10, <2>11 DEF packet
    <3>2. Counted(p, runs)
      BY <1>5, <2>7 DEF packet
    <3> QED
      BY <2>4, <2>5, <2>6, <3>1, <3>2 DEF AllCounted
  <2>14. PICK r : r = g[k]
    OBVIOUS
  <2>15. /\ Sound(a.s, a.w) /\ p.conn = c /\ r = AddNodeToBeExecuted(a, c, p)
         /\ Placed(a.s, a.w, runs) /\ Ahead(a.s, runs, others \cup {c})
    BY <1>3, <1>5, <2>2, <2>3, <2>4, <2>5, <2>7, <2>9, <2>14 DEF conn, packet
  <2>16. ~Overwrites(a, c) /\ Placed(r.s, r.w, runs) /\ Ahead(r.s, runs, others)
    <3>1. others \in SUBSET MainConns
      BY <2>9 DEF ConnsFrom
    <3> QED
      BY <2>6, <2>9, <2>12, <2>13, <2>15, <3>1, PacketPlaced
  <2>17. Spared(g, follow, k)
    BY <2>1, <2>2, <2>3, <2>5, <2>7, <2>16 DEF Spared, conn
  <2> QED
    BY <2>1, <2>8, <2>14, <2>16, <2>17
<1>9. 0..Len(follow) \subseteq Good
  <2> HIDE DEF Good
  <2> QED
    BY <1>3, <1>7, <1>8, UpTo
<1>10. Len(follow) \in 0..Len(follow)
  BY <1>3
<1>11. Spared(g, follow, Len(follow)) /\ Placed(g[Len(follow)].s, g[Len(follow)].w, runs)
  BY <1>9, <1>10
<1>12. q = g[Len(follow)]
  BY <1>1, <1>2 DEF AddChildren
<1>13. ~ChildrenOverwrite(n, outs, run, s)
  BY <1>1, <1>2, <1>11 DEF ChildrenOverwrite, Spared
<1> QED
  BY <1>11, <1>12, <1>13

(* The look at what waits keeps every node where it is allowed to be.      *)
LEMMA ReleasePlaced ==
  ASSUME NEW q, q.s \in Seq(Items), NEW runs \in [Node -> Nat], Placed(q.s, q.w, runs),
         NodesOf(q.w) \subseteq Node, NEW r, r = q \/ Frees(q, r)
  PROVE  Placed(r.s, r.w, runs)
<1>1. CASE r = q
  BY <1>1
<1>2. CASE Frees(q, r)
  <2>1. PICK x \in Items :
          /\ q.s = <<>> /\ r.s = <<x>>
          /\ x.node \in NodesOf(q.w) /\ ParentNodes(x.node) \cap NodesOf(q.w) = {}
          /\ \E k \in DOMAIN EntriesOf(q.w, x.node) :
               Replaced(r.w, q.w, x.node, Without(EntriesOf(q.w, x.node), k))
    BY <1>2 DEF Frees
  <2>2. PICK k \in DOMAIN EntriesOf(q.w, x.node) : Replaced(r.w, q.w, x.node, Without(EntriesOf(q.w, x.node), k))
    BY <2>1
  <2>3. x.node \notin Tools /\ runs[x.node] = 0 /\ DOMAIN EntriesOf(q.w, x.node) = {0}
    BY <2>1 DEF Placed
  <2>4. DOMAIN Without(EntriesOf(q.w, x.node), k) = {}
    BY <2>3 DEF Without
  <2>5. WaitsNoMore(r.w, q.w, x.node)
    BY <2>2, <2>4 DEF Replaced, WaitsNoMore
  <2>6. NodesIn(q.s) = {}
    <3>1. Len(q.s) = 0 /\ 1..0 = {}
      BY <2>1
    <3> QED
      BY <3>1 DEF NodesIn
  <2>7. MayCome(x.node, q.s, q.w, runs)
    <3>1. x.node \notin Started(q.s, runs)
      BY <2>3, <2>6 DEF Started
    <3>2. \A m \in Started(q.s, runs) : x.node \notin ParentNodes(m)
      BY <2>1 DEF Placed
    <3> QED
      BY <2>1, <2>3, <2>6, <3>1, <3>2 DEF MayCome
  <2>8. First(r.s, x, q.s)
    BY <2>1 DEF First
  <2>9. PICK l, v, w : l = r.s /\ v = r.w /\ w = q.w
    OBVIOUS
  <2>10. First(l, x, q.s) /\ Placed(q.s, w, runs) /\ MayCome(x.node, q.s, w, runs) /\ WaitsNoMore(v, w, x.node)
    BY <2>5, <2>7, <2>8, <2>9
  <2>11. Placed(l, v, runs)
    BY <2>10, ItemComes
  <2> QED
    BY <2>9, <2>11
<1> QED
  BY <1>1, <1>2

(* The first node in line runs: the others stay where they are allowed to  *)
(* be, and its connections are ahead.                                      *)
LEMMA HeadRuns ==
  ASSUME wf \in Workflows, FeedForward, NEW x \in Items, NEW s \in Seq(Items), NEW l, First(l, x, s),
         x.node \in Node \ Tools, NEW w, NodesOf(w) \subseteq Node,
         NEW a \in [Node -> Nat], NEW b, OneMore(b, a, x.node),
         Placed(l, w, a), NEW held, AllCounted(held, a)
  PROVE  /\ b \in [Node -> Nat] /\ a[x.node] < b[x.node]
         /\ Placed(s, w, b) /\ AllCounted(held, b)
         /\ Ahead(s, b, ConnsFrom(x.node)) /\ NoneFrom(held, ConnsFrom(x.node))
<1>0. PICK n \in Node \ Tools : n = x.node
  OBVIOUS
<1>1. /\ NodesIn(l) = NodesIn(s) \cup {n} /\ Len(l) = Len(s) + 1 /\ l[1] = x
      /\ \A i \in 1..Len(s) : l[i + 1] = s[i]
  BY <1>0, OneMoreInLine
<1>2. b \in [Node -> Nat] /\ b[n] = a[n] + 1 /\ \A m \in Node : m # n => b[m] = a[m]
  BY <1>0 DEF OneMore
<1>3. a[n] = 0 /\ n \notin NodesOf(w)
  BY <1>1 DEF Placed
<1>4. \A i \in 1..Len(s) : i + 1 \in 1..Len(l) /\ i + 1 # 1 /\ 1 \in 1..Len(l)
  BY <1>1
<1>5. n \notin NodesIn(s)
  <2>1. SUFFICES ASSUME NEW i \in 1..Len(s), s[i].node = n PROVE FALSE
    BY DEF NodesIn
  <2>2. l[i + 1].node = l[1].node /\ l[1].node \notin Tools
    BY <1>0, <1>1, <2>1
  <2> QED
    BY <1>4, <2>2 DEF Placed
<1>6. ASSUME NEW i \in 1..Len(s), NEW j \in 1..Len(s), s[i].node = s[j].node, s[i].node \notin Tools
      PROVE  i = j
  <2>1. l[i + 1].node = l[j + 1].node /\ l[i + 1].node \notin Tools
    BY <1>1, <1>6
  <2>2. i + 1 = j + 1
    BY <1>4, <2>1 DEF Placed
  <2>3. i \in Int /\ j \in Int
    OBVIOUS
  <2> QED
    BY <2>2, <2>3
<1>7. Started(s, b) \subseteq Started(l, a)
  BY <1>1, <1>2 DEF Started
<1>8. \A m \in Node \ Tools : b[m] <= 1
  BY <1>2, <1>3 DEF Placed
<1>9. \A m \in NodesIn(s) : m \notin NodesOf(w) /\ b[m] = 0
  <2>1. \A m \in NodesIn(s) : m \in Node
    <3>1. \A i \in 1..Len(s) : s[i] \in Items
      OBVIOUS
    <3> QED
      BY <3>1 DEF NodesIn, Items
  <2> QED
    BY <1>1, <1>2, <1>5, <2>1 DEF Placed
<1>10. \A m \in NodesOf(w) : m \notin Tools /\ b[m] = 0 /\ DOMAIN EntriesOf(w, m) = {0}
  BY <1>2, <1>3 DEF Placed
<1>11. Placed(s, w, b)
  BY <1>1, <1>6, <1>7, <1>8, <1>9, <1>10 DEF Placed
<1>12. Ahead(s, b, ConnsFrom(n))
  <2>1. SUFFICES ASSUME NEW c \in MainConns, c.from = n, NEW m \in Started(s, b), c.to \in ParentNodes(m) \cup {m}
                 PROVE  FALSE
    BY DEF Ahead, ConnsFrom
  <2>2. m \in Node
    BY DEF Started
  <2>3. n \in ParentNodes(m)
    BY <2>1, <2>2, LeadsBehind
  <2> QED
    BY <1>1, <1>7, <2>3 DEF Placed
<1>13. NoneFrom(held, ConnsFrom(n)) /\ AllCounted(held, b)
  <2>1. ASSUME NEW p \in held
        PROVE  Counted(p, b) /\ (p \in Packet => p.conn.from # n)
    <3>1. Counted(p, a)
      BY DEF AllCounted
    <3>2. CASE p = Trigger
      BY <3>2, Unmarked DEF Counted
    <3>3. CASE p \in Packet /\ p.run < a[p.conn.from]
      <4>1. p.conn.from \in Node /\ p.run \in Nat
        BY <3>3 DEF Packet, Connection
      <4>2. p.conn.from # n
        BY <1>3, <3>3, <4>1
      <4> QED
        BY <1>2, <3>3, <4>1, <4>2 DEF Counted
    <3> QED
      BY <3>1, <3>2, <3>3 DEF Counted
  <2> QED
    BY <2>1 DEF NoneFrom, AllCounted, ConnsFrom
<1> QED
  BY <1>0, <1>2, <1>3, <1>11, <1>12, <1>13

(* What holds between steps                                                *)
PlacedInv == Placed(LineOf(stack, current), waiting, RunsIn(stack, runData))

(* Placed is about the workflow and these variables only.                  *)
LEMMA PlacedStays ==
  ASSUME UNCHANGED wf, Placed(LineOf(stack', current'), waiting', RunsIn(stack', runData'))
  PROVE  PlacedInv'
<1>1. Tools' = Tools /\ \A n : ParentNodes(n)' = ParentNodes(n)
  BY SameWorkflow
<1>2. \A l : NodesIn(l)' = NodesIn(l)
  BY <1>1 DEF NodesIn
<1>3. \A l, runs : Started(l, runs)' = Started(l, runs)
  BY <1>1, <1>2 DEF Started
<1>4. \A s, data : RunsIn(s, data)' = RunsIn(s, data)
  BY <1>1 DEF RunsIn, RedoneIn
<1>5. \A l, w, runs : Placed(l, w, runs)' = Placed(l, w, runs)
  BY <1>1, <1>2, <1>3 DEF Placed
<1> QED
  BY <1>4, <1>5 DEF PlacedInv

(* The line consists of items, and the nodes that wait are nodes.          *)
LEMMA LineIsTyped ==
  ASSUME NEW s \in Seq(Items), NEW c \in Items \cup {Null}, NEW w \in Seq(Waits)
  PROVE  LineOf(s, c) \in Seq(Items) /\ NodesOf(w) \subseteq Node
<1>1. LineOf(s, c) \in Seq(Items)
  <2>1. CASE c = Null
    BY <2>1 DEF LineOf
  <2>2. CASE c # Null
    <3>1. c \in Items /\ LineOf(s, c) = <<c>> \o s
      BY <2>2 DEF LineOf
    <3> QED
      BY <3>1
  <2> QED
    BY <2>1, <2>2
<1>2. \A i \in DOMAIN w : w[i] \in Waits
  OBVIOUS
<1>3. NodesOf(w) \subseteq Node
  BY <1>2 DEF NodesOf, Waits
<1> QED
  BY <1>1, <1>3

(* When no node runs, all stay where they are allowed to be.               *)
LEMMA NoNodeRunsPlaced ==
  ASSUME Typed, Typed', UNCHANGED wf, PlacedInv, NoNodeRuns
  PROVE  PlacedInv'
<1>1. stack \in Seq(Items) /\ current \in Items \cup {Null} /\ waiting \in Seq(Waits)
  BY DEF Typed
<1>2. stack' \in Seq(Items) /\ current' \in Items \cup {Null} /\ waiting' \in Seq(Waits)
  BY SameWorkflow DEF Typed
<1>3. PICK l \in Seq(Items) : l = LineOf(stack, current)
  BY <1>1, LineIsTyped
<1>4. PICK t \in Seq(Items) : t = LineOf(stack', current')
  BY <1>2, LineIsTyped
<1>5. PICK runs, w : runs = RunsIn(stack, runData) /\ w = waiting
  OBVIOUS
<1>6. Shifted(t, l) /\ RunsIn(stack', runData') = runs /\ waiting' = w /\ Placed(l, w, runs)
  BY <1>3, <1>4, <1>5 DEF NoNodeRuns, PlacedInv
<1>7. Placed(t, w, runs)
  BY <1>6, ShiftedPlaced
<1> QED
  BY <1>4, <1>6, <1>7, PlacedStays

(* What a run leaves                                                       *)
LEMMA AfterRun ==
  ASSUME Typed, current # Null, NEW outs \in SUBSET Nat, Finish(outs), current.node # destination,
         NEW a, a = AddChildren(current.node, outs, RunIndex, stack)
  PROVE  stack' = ExecuteWaiting(a).s /\ waiting' = ExecuteWaiting(a).w
BY DEF Finish

(* A node that runs has its children placed, and overwrites nothing.       *)
LEMMA RunPlaced ==
  ASSUME Typed, WellConnected, FeedForward, FlowInv, PlacedInv, current # Null, current.node \notin Tools,
         NEW outs \in SUBSET Nat, Finish(outs), NEW b, OneMore(b, RunsIn(stack, runData), current.node)
  PROVE  /\ current.node # destination => ~ChildrenOverwrite(current.node, outs, RunIndex, stack)
         /\ Placed(stack', waiting', b)
<1>1. /\ current \in Items /\ stack \in Seq(Items) /\ First(LineOf(stack, current), current, stack)
      /\ LineOf(stack, current) \in Seq(Items) /\ Sound(stack, waiting)
      /\ Held(LineOf(stack, current), waiting) = Packets(current.main) \cup Held(stack, waiting)
      /\ RunsIn(stack, runData) = Ended(runData)
      /\ History(runData, Ended(runData), Held(LineOf(stack, current), waiting))
  BY Executed
<1>2. wf \in Workflows /\ waiting \in Seq(Waits) /\ ConnectionsDiffer /\ runData \in [Node -> Seq(TaskData)]
  BY DEF Typed, WellConnected
<1>3. PICK n \in Node : n = current.node /\ n \notin Tools
  BY <1>1 DEF Items
<1>4. PICK a \in [Node -> Nat] : a = RunsIn(stack, runData)
  BY <1>1, <1>2, EndedIs
<1>5. PICK run \in Nat : run = RunIndex
  BY RunIndexIs
<1>6. run = a[n]
  BY <1>1, <1>3, <1>4, <1>5, RunIndexIsNext
<1>7. PICK held : held = Held(stack, waiting)
  OBVIOUS
<1>8. AllCounted(held, a)
  BY <1>1, <1>4, <1>7 DEF History, AllCounted
<1>9. PICK D : D = ConnsFrom(n)
  OBVIOUS
<1>10. /\ b \in [Node -> Nat] /\ a[n] < b[n]
       /\ Placed(stack, waiting, b) /\ Ahead(stack, b, D) /\ NoneFrom(held, D) /\ AllCounted(held, b)
  <2>1. PICK x \in Items, s \in Seq(Items), l \in Seq(Items), w \in Seq(Waits) :
          x = current /\ s = stack /\ l = LineOf(stack, current) /\ w = waiting
    BY <1>1, <1>2
  <2>2. /\ First(l, x, s) /\ x.node \in Node \ Tools /\ NodesOf(w) \subseteq Node
        /\ OneMore(b, a, x.node) /\ Placed(l, w, a)
    BY <1>1, <1>2, <1>3, <1>4, <2>1, LineIsTyped DEF PlacedInv
  <2>3. /\ b \in [Node -> Nat] /\ a[x.node] < b[x.node]
        /\ Placed(s, w, b) /\ AllCounted(held, b)
        /\ Ahead(s, b, ConnsFrom(x.node)) /\ NoneFrom(held, ConnsFrom(x.node))
    BY <1>2, <1>8, <2>2, HeadRuns
  <2> QED
    BY <1>3, <1>9, <2>1, <2>3
<1>11. CASE n = destination
  <2>1. UNCHANGED <<stack, waiting>>
    BY <1>3, <1>11 DEF Finish
  <2> QED
    BY <1>3, <1>10, <1>11, <2>1
<1>12. CASE n # destination
  <2>1. PICK q : q = AddChildren(n, outs, run, stack)
    OBVIOUS
  <2>2. run < b[n] /\ b \in [Node -> Nat]
    BY <1>6, <1>10
  <2>3. ~ChildrenOverwrite(n, outs, run, stack) /\ Placed(q.s, q.w, b)
    BY <1>1, <1>2, <1>7, <1>9, <1>10, <2>1, <2>2, ChildrenPlaced
  <2>4. Held(stack, waiting) \cap NewPackets(n, outs, run) = {}
    <3>1. \A p \in NewPackets(n, outs, run) : p \in Packet /\ p.conn \in D
      <4>1. MainConns \subseteq Connection
        BY <1>2, Connections
      <4> QED
        BY <1>9, <4>1 DEF NewPackets, Packet, ConnsFrom
    <3> QED
      BY <1>7, <1>10, <3>1 DEF NoneFrom
  <2>5. q \in Grown(stack) /\ Sound(q.s, q.w)
    BY <1>1, <1>2, <2>1, <2>3, <2>4, ChildrenAdded
  <2>6. q \in [s : Seq(Items), w : Seq(Waits)]
    BY <2>5 DEF Grown
  <2>7. PICK r : r = ExecuteWaiting(q)
    OBVIOUS
  <2>8. r = q \/ Frees(q, r)
    BY <1>2, <2>5, <2>6, <2>7, ReleaseKeeps
  <2>9. q.s \in Seq(Items) /\ q.w \in Seq(Waits)
    BY <2>6
  <2>10. NodesOf(q.w) \subseteq Node
    BY <1>1, <2>9, LineIsTyped
  <2>11. Placed(r.s, r.w, b)
    BY <2>2, <2>3, <2>8, <2>9, <2>10, ReleasePlaced
  <2>12. stack' = r.s /\ waiting' = r.w
    BY <1>3, <1>5, <1>12, <2>1, <2>7, AfterRun
  <2> QED
    BY <1>3, <1>5, <2>3, <2>11, <2>12
<1> QED
  BY <1>11, <1>12

(* A tool has no children.                                                 *)
LEMMA ToolPlaced ==
  ASSUME Typed, FeedForward, FlowInv, PlacedInv, current # Null, current.node \in Tools,
         NEW outs \in SUBSET Nat, Finish(outs)
  PROVE  /\ ~ChildrenOverwrite(current.node, outs, RunIndex, stack)
         /\ Placed(stack', waiting', RunsIn(stack, runData))
<1>1. /\ current \in Items /\ stack \in Seq(Items) /\ First(LineOf(stack, current), current, stack)
      /\ LineOf(stack, current) \in Seq(Items)
      /\ Sound(stack, waiting) /\ RunsIn(stack, runData) = Ended(runData)
  BY Executed
<1>2. wf \in Workflows /\ waiting \in Seq(Waits) /\ runData \in [Node -> Seq(TaskData)]
  BY DEF Typed
<1>3. PICK n \in Node : n = current.node
  BY <1>1 DEF Items
<1>4. PICK runs \in [Node -> Nat] : runs = RunsIn(stack, runData)
  BY <1>1, <1>2, EndedIs
<1>5. Placed(stack, waiting, runs)
  <2>1. PICK l \in Seq(Items), w \in Seq(Waits) : l = LineOf(stack, current) /\ w = waiting
    BY <1>1, <1>2
  <2>2. Shifted(stack, l) /\ Placed(l, w, runs)
    BY <1>1, <1>4, <2>1, LineShifts DEF PlacedInv
  <2>3. Placed(stack, w, runs)
    BY <1>1, <2>2, ShiftedPlaced
  <2> QED
    BY <2>1, <2>3
<1>6. PICK run \in Nat : run = RunIndex
  BY RunIndexIs
<1>7. Len(ConnectionsToFollow(n, outs)) = 0
  BY <1>2, <1>3, ToolsHaveNoConnections, NothingFollows
<1>8. ~ChildrenOverwrite(n, outs, run, stack)
  <2>1. 1..0 = {}
    OBVIOUS
  <2> QED
    BY <1>7, <2>1 DEF ChildrenOverwrite
<1>9. CASE n = destination
  <2>1. UNCHANGED <<stack, waiting>>
    BY <1>3, <1>9 DEF Finish
  <2> QED
    BY <1>3, <1>4, <1>5, <1>6, <1>8, <2>1
<1>10. CASE n # destination
  <2>1. PICK q : q = AddChildren(n, outs, run, stack)
    OBVIOUS
  <2>2. q = [s |-> stack, w |-> waiting]
    <3>1. PICK follow : follow = ConnectionsToFollow(n, outs)
      OBVIOUS
    <3>2. PICK g : g = AddingChildren(n, outs, run, stack)
      OBVIOUS
    <3>3. g[0] = [s |-> stack, w |-> waiting]
      BY <1>1, <1>2, <3>1, <3>2, AddingUnfolds
    <3> QED
      BY <1>7, <2>1, <3>2, <3>3 DEF AddChildren
  <2>3. q \in [s : Seq(Items), w : Seq(Waits)] /\ q.s = stack /\ q.w = waiting
    BY <1>1, <1>2, <2>2
  <2>4. PICK r : r = ExecuteWaiting(q)
    OBVIOUS
  <2>5. r = q \/ Frees(q, r)
    BY <1>1, <1>2, <2>3, <2>4, ReleaseKeeps
  <2>6. NodesOf(q.w) \subseteq Node
    BY <1>1, <1>2, <2>3, LineIsTyped
  <2>7. Placed(r.s, r.w, runs)
    BY <1>1, <1>5, <2>3, <2>5, <2>6, ReleasePlaced
  <2>8. stack' = r.s /\ waiting' = r.w
    BY <1>3, <1>6, <1>10, <2>1, <2>4, AfterRun
  <2> QED
    BY <1>3, <1>4, <1>6, <1>8, <2>7, <2>8
<1> QED
  BY <1>9, <1>10

(* So nothing is overwritten.                                              *)
LEMMA FeedForwardSpares ==
  ASSUME Typed, WellConnected, FeedForward, FlowInv, PlacedInv
  PROVE  NothingOverwritten
<1> SUFFICES ASSUME NEW outs \in SUBSET Nat, current # Null, current.node # destination, Finish(outs)
             PROVE  ~ChildrenOverwrite(current.node, outs, RunIndex, stack)
  BY DEF NothingOverwritten
<1>1. PICK b : OneMore(b, RunsIn(stack, runData), current.node)
  BY DEF OneMore
<1> QED
  BY <1>1, RunPlaced, ToolPlaced

(* A step keeps every node where it is allowed to be.                      *)
LEMMA StepPlaced ==
  ASSUME Typed, Typed', Stops, Given(stack, current), WellConnected, FeedForward, FlowInv, PlacedInv, [Next]_vars
  PROVE  PlacedInv'
<1>1. UNCHANGED wf
  BY StepKeepsWorkflow
<1>2. CASE UNCHANGED vars
  <2>1. UNCHANGED <<stack, waiting, runData, current>>
    BY <1>2 DEF vars
  <2>2. Placed(LineOf(stack', current'), waiting', RunsIn(stack', runData'))
    BY <2>1 DEF PlacedInv
  <2> QED
    BY <1>1, <2>2, PlacedStays
<1>3. CASE Returns
  <2>1. PICK outs \in SUBSET Nat : Finish(outs) /\ current # Null
    BY <1>3 DEF Returns, Executing
  <2>2. current.node # destination => ~ChildrenOverwrite(current.node, outs, RunIndex, stack)
    BY <2>1, FeedForwardSpares DEF NothingOverwritten
  <2>3. NodeRuns
    BY <2>1, <2>2, FinishFlows
  <2>4. Placed(stack', waiting', RunsIn(stack', runData'))
    <3>1. CASE current.node \in Tools
      <4>1. Placed(stack', waiting', RunsIn(stack, runData))
        BY <2>1, <3>1, ToolPlaced
      <4>2. RunsIn(stack', runData') = RunsIn(stack, runData)
        BY <2>3, <3>1 DEF NodeRuns
      <4> QED
        BY <4>1, <4>2
    <3>2. CASE current.node \notin Tools
      <4>1. PICK b : b = RunsIn(stack', runData')
        OBVIOUS
      <4>2. OneMore(b, RunsIn(stack, runData), current.node)
        BY <2>3, <3>2, <4>1 DEF NodeRuns
      <4>3. Placed(stack', waiting', b)
        BY <2>1, <3>2, <4>2, RunPlaced
      <4> QED
        BY <4>1, <4>3
    <3> QED
      BY <3>1, <3>2
  <2>5. LineOf(stack', current') = stack'
    BY <2>1, FinishDoes DEF LineOf
  <2> QED
    BY <1>1, <2>4, <2>5, PlacedStays
<1>4. CASE Next /\ ~Returns
  <2>1. NoNodeRuns
    BY <1>4, StepKinds, ShiftFlows, EndsBranchFlows, RequestsFlows, QuietFlows,
       FailsFlows, WaitsFlows, ResumeFlows, RetryFlows
  <2> QED
    BY <1>1, <2>1, NoNodeRunsPlaced
<1> QED
  BY <1>2, <1>3, <1>4

(* Initially the trigger is in line.                                       *)
LEMMA InitPlaced ==
  ASSUME Init, Typed, WellConnected, FeedForward
  PROVE  PlacedInv
<1>1. /\ stack = <<Item(wf.trigger, <<Trigger>>)>> /\ waiting = <<>>
      /\ runData = [n \in Node |-> <<>>] /\ current = Null
  BY DEF Init
<1>2. PICK x : x = Item(wf.trigger, <<Trigger>>)
  OBVIOUS
<1>3. x.node = wf.trigger
  BY <1>2 DEF Item, ItemOf
<1>4. PICK l : l = LineOf(stack, current)
  OBVIOUS
<1>5. l = <<x>> /\ Len(l) = 1 /\ l[1] = x /\ \A i \in 1..Len(l) : i = 1
  BY <1>1, <1>2, <1>4 DEF LineOf
<1>6. NodesIn(l) \subseteq {wf.trigger}
  BY <1>3, <1>5 DEF NodesIn
<1>7. NodesOf(waiting) = {}
  BY <1>1 DEF NodesOf
<1>8. \A n \in Node : RunsIn(stack, runData)[n] = 0
  BY <1>1 DEF RunsIn, RedoneIn
<1>9. Started(l, RunsIn(stack, runData)) \subseteq {wf.trigger}
  BY <1>6, <1>8 DEF Started
<1>10. wf.trigger \in Node /\ wf.trigger \notin ParentNodes(wf.trigger)
  BY TheWorkflow DEF Typed, IsWorkflow, ParentNodes
<1>11. Placed(l, waiting, RunsIn(stack, runData))
  BY <1>5, <1>6, <1>7, <1>8, <1>9, <1>10 DEF Placed
<1> QED
  BY <1>4, <1>11 DEF PlacedInv

(* What holds in an execution of such a workflow                           *)
FeedForwardInv ==
  /\ Typed /\ Stops /\ Given(stack, current) /\ WellConnected /\ FeedForward
  /\ FlowInv /\ PlacedInv

(* It holds initially, and every step keeps it and overwrites nothing.     *)
LEMMA FeedForwardInductive ==
  /\ Init /\ WellConnected /\ FeedForward => FeedForwardInv
  /\ FeedForwardInv /\ [Next]_vars => FeedForwardInv' /\ [NothingOverwritten]_vars
<1>1. Init /\ WellConnected /\ FeedForward => FeedForwardInv
  BY InitTyped, InitGiven, InitFlows, InitPlaced DEF FeedForwardInv
<1>2. ASSUME FeedForwardInv, [Next]_vars
      PROVE  FeedForwardInv' /\ [NothingOverwritten]_vars
  <2>0. Typed /\ Stops /\ Given(stack, current) /\ WellConnected /\ FeedForward /\ FlowInv /\ PlacedInv
    BY <1>2 DEF FeedForwardInv
  <2>1. Typed' /\ Stops'
    BY <1>2, <2>0, StepTyped
  <2>2. Given(stack, current)'
    BY <1>2, <2>0, StepGiven DEF Given
  <2>3. WellConnected' /\ FeedForward'
    BY <1>2, <2>0, StepKeepsWorkflow, SameWorkflow DEF WellConnected, ConnectionsDiffer, FeedForward
  <2>4. NothingOverwritten
    BY <2>0, FeedForwardSpares
  <2>5. FlowInv'
    BY <1>2, <2>0, <2>1, <2>4, StepFlows
  <2>6. PlacedInv'
    BY <1>2, <2>0, <2>1, StepPlaced
  <2> QED
    BY <2>1, <2>2, <2>3, <2>4, <2>5, <2>6 DEF FeedForwardInv
<1> QED
  BY <1>1, <1>2

(* In such a workflow addNodeToBeExecuted never finds an entry under the   *)
(* key that it chooses for a new one, which DataReachesItsRun takes: every *)
(* node waits once, for what the nodes before it send, and is executed     *)
(* without the rest only when nothing before it waits or is in line.       *)
THEOREM FeedForwardOverwritesNothing ==
  Spec /\ WellConnected /\ FeedForward => [][NothingOverwritten]_vars
<1>1. Init /\ WellConnected /\ FeedForward => FeedForwardInv
  BY FeedForwardInductive
<1>2. FeedForwardInv /\ [Next]_vars => FeedForwardInv' /\ [NothingOverwritten]_vars
  BY FeedForwardInductive
<1> QED
  BY <1>1, <1>2, PTL DEF Spec

(* The engine implements Dataflow in every workflow whose connections go   *)
(* forwards and lead to different inputs, whatever its nodes return, wait  *)
(* for, fail with and ask of tools: no condition on the execution is left. *)
THEOREM FeedForwardDataReachesItsRun ==
  Spec /\ WellConnected /\ FeedForward => ImplementsDataflow
BY FeedForwardOverwritesNothing, DataReachesItsRun

(* No node but a tool has more than one run that is over, in such a        *)
(* workflow: a node where branches meet is executed once for all of them,  *)
(* and what waits or fails is executed again in the run it had.            *)
THEOREM FeedForwardRunsOnce ==
  Spec /\ WellConnected /\ FeedForward => [](\A n \in Node \ Tools : Runs[n] <= 1)
<1>1. Init /\ WellConnected /\ FeedForward => FeedForwardInv
  BY FeedForwardInductive
<1>2. FeedForwardInv /\ [Next]_vars => FeedForwardInv'
  BY FeedForwardInductive
<1>3. FeedForwardInv => \A n \in Node \ Tools : Runs[n] <= 1
  BY RunsAre DEF FeedForwardInv, PlacedInv, Placed
<1> QED
  BY <1>1, <1>2, <1>3, PTL DEF Spec
=============================================================================
