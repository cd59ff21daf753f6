------------------------- MODULE MCWorkflowExecute -------------------------
(* Workflows for TLC.                                                      *)
EXTENDS WorkflowExecute

Conn(f, o, t, i) == [from |-> f, out |-> o, to |-> t, in |-> i, type |-> "main"]

Places == {[n \in 1 .. 5 |-> n], [n \in 1 .. 5 |-> 6 - n]}

Workflow(conns, place, outs) ==
  [conns |-> conns, trigger |-> 1, place |-> place, outs |-> outs, loops |-> {}, batches |-> 2,
   tools |-> <<>>, disabled |-> {}, pinned |-> {}, ends |-> {}, waits |-> {}, fails |-> {},
   retries |-> {}, continues |-> {}, requiring |-> {}, destinations |-> {Null}]

Straight == [n \in 1 .. 5 |-> {{0}}]
Branching == [Straight EXCEPT ![2] = SUBSET {0, 1}]

(* Node 1 is the trigger, node 2 has two outputs, 4 and 5 are merges of two*)
(* inputs. Every input has a connection, the first one of 5 up to two.     *)
Sources(S) == {<<n, 0>> : n \in S} \cup {<<2, 1>>}

Merging(most) ==
  {<<Conn(1, 0, 2, 0), Conn(c[1], c[2], 3, 0)>>
     \o <<Conn(a[1], a[2], 4, 0), Conn(b[1], b[2], 4, 1)>>
     \o SetToSeq({Conn(s[1], s[2], 5, 0) : s \in d}) \o <<Conn(e[1], e[2], 5, 1)>> :
       c \in Sources({1}), a \in Sources({1, 3}), b \in Sources({2, 3}),
       d \in {s \in SUBSET Sources({3, 4}) : s # {} /\ Cardinality(s) <= most},
       e \in Sources({1, 2})}

Merges == {Workflow(c, p, Branching) : c \in Merging(2), p \in Places}

(* Two branches that meet in 5, with a setting on one of their nodes and   *)
(* perhaps another on a second one.                                        *)
Diamond == <<Conn(1, 0, 2, 0), Conn(2, 0, 3, 0), Conn(2, 1, 4, 0), Conn(2, 0, 5, 0), Conn(3, 0, 5, 0),
             Conn(4, 0, 5, 1)>>

Settings == {"disabled", "pinned", "waits", "fails", "requiring"}

Set(w, s, n) == [w EXCEPT ![s] = @ \cup {n}]

Diamonds ==
  LET plain == {Workflow(Diamond, p, Branching) : p \in Places}
      one   == {Set(w, s, n) : w \in plain, s \in Settings, n \in 2 .. 5}
      two   == {Set(w, s, n) : w \in one, s \in Settings \cup {"retries", "continues"}, n \in 2 .. 5}
  IN  {[w EXCEPT !.destinations = 2 .. 5] : w \in plain} \cup one \cup two

(* A loop over node 2, with a merge and a wait within.                     *)
Loop == <<Conn(1, 0, 2, 0), Conn(2, 1, 3, 0), Conn(2, 1, 4, 1), Conn(3, 0, 4, 0), Conn(4, 0, 2, 0),
          Conn(2, 0, 5, 0)>>

Loops == {[Set(Workflow(Loop, p, Straight), s, n) EXCEPT !.loops = {2}] :
            p \in Places, s \in Settings, n \in 3 .. 5}

(* Node 2 is an agent that calls 4 and 5.                                  *)
Agents ==
  {[Set(Set(Workflow(<<Conn(1, 0, 2, 0), Conn(1, 0, 3, 0), Conn(3, 0, 2, 0)>>, p, Straight), s, n), r, m)
      EXCEPT !.tools = [x \in {2} |-> t]] :
     p \in Places, t \in {<<4>>, <<4, 5>>, <<4, 4>>}, s \in Settings, n \in {2, 4},
     r \in Settings \cup {"retries", "continues", "ends"}, m \in {2, 4}}

All == Merges \cup Diamonds \cup Loops \cup Agents
============================================================================
