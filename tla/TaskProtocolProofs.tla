------------------------- MODULE TaskProtocolProofs -------------------------
(***************************************************************************)
(* The protocol of broker, runners and requesters is correct for any       *)
(* runners, requests and ids: an inductive invariant that says, for each   *)
(* offer, which messages about it can be on their way in which state of    *)
(* the two sides, and the invariants that follow from it. First Keep,      *)
(* then queues of messages, then one lemma per action. At the end, with an *)
(* invariant of its own, that a runner never promises more than it can     *)
(* run.                                                                    *)
(***************************************************************************)
EXTENDS TaskBroker, ListLemmas, SequenceTheorems

-----------------------------------------------------------------------------
(* Keep                                                                    *)

(* Two elements of t stand in s in the same order.                         *)
InOrderOf(t, s) ==
  \A a, b \in 1..Len(t) : a < b =>
    \E i, j \in 1..Len(s) : i < j /\ t[a] = s[i] /\ t[b] = s[j]

(* The function that Keep is defined with                                  *)
KeepsBy(kept, s, S, T) ==
  /\ kept \in [0..Len(s) -> Seq(T)]
  /\ kept[0] = <<>> /\ Keep(s, S) = kept[Len(s)]
  /\ \A i \in 1..Len(s) :
       kept[i] = IF s[i] \in S THEN Append(kept[i - 1], s[i]) ELSE kept[i - 1]

(* Keep is a fold: the function in its definition exists and satisfies     *)
(* its equations.                                                          *)
LEMMA KeepFolds ==
  ASSUME NEW T, NEW s \in Seq(T), NEW S
  PROVE  \E kept : KeepsBy(kept, s, S, T)
<1> DEFINE n == Len(s)
           step == [i \in 1..n |-> [k \in Seq(T) |-> IF s[i] \in S THEN Append(k, s[i]) ELSE k]]
           Next1(f) == [i \in 0..n |-> IF i = 0 THEN <<>>
                         ELSE IF s[i] \in S THEN Append(f[i - 1], s[i]) ELSE f[i - 1]]
<1>1. n \in Nat /\ <<>> \in Seq(T) /\ \A i \in 1..n : s[i] \in T
  OBVIOUS
<1>2. step \in [1..n -> [Seq(T) -> Seq(T)]]
  BY <1>1
<1>3. PICK f : Folds(f, n, Seq(T), <<>>, step)
  <2> HIDE DEF step, n
  <2> QED
    BY <1>1, <1>2, FoldDefined
<1>4. f \in [0..n -> Seq(T)] /\ f[0] = <<>>
      /\ \A i \in 1..n : f[i] = step[i][f[i - 1]]
  BY <1>3 DEF Folds
<1>5. ASSUME NEW i \in 1..n
      PROVE  f[i] = IF s[i] \in S THEN Append(f[i - 1], s[i]) ELSE f[i - 1]
  <2>1. f[i - 1] \in Seq(T)
    BY <1>1, <1>4
  <2> QED
    BY <2>1, <1>4
<1>6. f = Next1(f)
  <2>1. \A i \in 0..n : f[i] = Next1(f)[i]
    <3> TAKE i \in 0..n
    <3>1. CASE i = 0
      BY <3>1, <1>4
    <3>2. CASE i # 0
      <4>1. i \in 1..n
        BY <3>2
      <4> HIDE DEF n
      <4> QED
        BY <4>1, <3>2, <1>5
    <3> QED
      BY <3>1, <3>2
  <2> QED
    BY <2>1, <1>4
<1> DEFINE kept == CHOOSE g : g = Next1(g)
<1>7. kept = Next1(kept)
  <2> HIDE DEF Next1
  <2> QED
    BY <1>6
<1>8. Keep(s, S) = kept[n]
  BY DEF Keep
<1> HIDE DEF kept, n
<1>9. /\ kept = [i \in 0..n |-> kept[i]] /\ kept[0] = <<>>
      /\ \A i \in 1..n : kept[i] = IF s[i] \in S THEN Append(kept[i - 1], s[i]) ELSE kept[i - 1]
  <2>1. ASSUME NEW i \in 1..n
        PROVE  i \in 0..n /\ i # 0
    BY <1>1
  <2>2. 0 \in 0..n
    BY <1>1
  <2> QED
    BY <1>7, <2>1, <2>2
<1>10. \A i \in 0..n : kept[i] \in Seq(T)
  <2> DEFINE Good == {i \in 0..n : kept[i] \in Seq(T)}
  <2>1. 0 \in Good
    BY <1>1, <1>9
  <2>2. ASSUME NEW i \in 1..n, i - 1 \in Good
        PROVE  i \in Good
    <3>1. kept[i - 1] \in Seq(T) /\ s[i] \in T /\ i \in 0..n
      BY <1>1, <2>2
    <3>2. Append(kept[i - 1], s[i]) \in Seq(T)
      BY <3>1
    <3> QED
      BY <1>9, <3>1, <3>2
  <2> HIDE DEF Good
  <2>3. 0..n \subseteq Good
    BY <1>1, <2>1, <2>2, UpTo
  <2> QED
    BY <2>3 DEF Good
<1>11. kept \in [0..n -> Seq(T)]
  BY <1>9, <1>10
<1>12. KeepsBy(kept, s, S, T)
  BY <1>8, <1>9, <1>11 DEF n, KeepsBy
<1> QED
  BY <1>12

(* k holds those of the first n members of s that are in S, in order.      *)
KeepsFirst(k, s, n, S) ==
  /\ \A a \in 1..Len(k) : \E i \in 1..n : k[a] = s[i] /\ s[i] \in S
  /\ \A i \in 1..n : s[i] \in S => \E a \in 1..Len(k) : k[a] = s[i]
  /\ \A a, b \in 1..Len(k) : a < b => \E i, j \in 1..n : i < j /\ k[a] = s[i] /\ k[b] = s[j]

(* How far a fold has come after k elements, by induction                  *)
LEMMA KeepStep ==
  ASSUME NEW T, NEW s \in Seq(T), NEW S, NEW n \in 1..Len(s),
         NEW old \in Seq(T), KeepsFirst(old, s, n - 1, S),
         NEW new, new = IF s[n] \in S THEN Append(old, s[n]) ELSE old
  PROVE  KeepsFirst(new, s, n, S)
<1>1. /\ n \in Nat \ {0} /\ s[n] \in T /\ Len(old) \in Nat /\ n \in 1..n
      /\ \A i \in 1..(n - 1) : i \in 1..n /\ i < n
      /\ \A i \in 1..n : i = n \/ i \in 1..(n - 1)
  OBVIOUS
<1>2. /\ \A a \in 1..Len(old) : \E i \in 1..(n - 1) : old[a] = s[i] /\ s[i] \in S
      /\ \A i \in 1..(n - 1) : s[i] \in S => \E a \in 1..Len(old) : old[a] = s[i]
      /\ \A a, b \in 1..Len(old) : a < b =>
           \E i, j \in 1..(n - 1) : i < j /\ old[a] = s[i] /\ old[b] = s[j]
  BY DEF KeepsFirst
<1>3. CASE s[n] \notin S
  <2>1. new = old
    BY <1>3
  <2>2. ASSUME NEW a \in 1..Len(new)
        PROVE  \E i \in 1..n : new[a] = s[i] /\ s[i] \in S
    <3>1. PICK i \in 1..(n - 1) : old[a] = s[i] /\ s[i] \in S
      BY <1>2, <2>1
    <3> QED
      BY <3>1, <1>1, <2>1
  <2>3. \A i \in 1..n : s[i] \in S => \E a \in 1..Len(new) : new[a] = s[i]
    BY <1>1, <1>2, <1>3, <2>1
  <2>4. \A a, b \in 1..Len(new) : a < b =>
          \E i, j \in 1..n : i < j /\ new[a] = s[i] /\ new[b] = s[j]
    BY <1>1, <1>2, <2>1
  <2> QED
    BY <2>2, <2>3, <2>4 DEF KeepsFirst
<1>4. CASE s[n] \in S
  <2>1. /\ Len(new) = Len(old) + 1 /\ new[Len(old) + 1] = s[n] /\ Len(old) + 1 \in 1..Len(new)
        /\ \A a \in 1..Len(old) : new[a] = old[a] /\ a \in 1..Len(new)
        /\ \A a \in 1..Len(new) : a = Len(old) + 1 \/ a \in 1..Len(old)
    BY <1>1, <1>4
  <2>2. ASSUME NEW a \in 1..Len(new)
        PROVE  \E i \in 1..n : new[a] = s[i] /\ s[i] \in S
    <3>1. CASE a \in 1..Len(old)
      <4>1. PICK i \in 1..(n - 1) : old[a] = s[i] /\ s[i] \in S
        BY <3>1, <1>2
      <4> QED
        BY <4>1, <3>1, <1>1, <2>1
    <3>2. CASE a = Len(old) + 1
      BY <3>2, <1>1, <1>4, <2>1
    <3> QED
      BY <3>1, <3>2, <2>1
  <2>3. ASSUME NEW i \in 1..n, s[i] \in S
        PROVE  \E a \in 1..Len(new) : new[a] = s[i]
    <3>1. CASE i \in 1..(n - 1)
      <4>1. PICK a \in 1..Len(old) : old[a] = s[i]
        BY <3>1, <2>3, <1>2
      <4> QED
        BY <4>1, <2>1
    <3>2. CASE i = n
      BY <3>2, <2>1
    <3> QED
      BY <3>1, <3>2, <1>1
  <2>4. ASSUME NEW a \in 1..Len(new), NEW b \in 1..Len(new), a < b
        PROVE  \E i, j \in 1..n : i < j /\ new[a] = s[i] /\ new[b] = s[j]
    <3>1. a \in 1..Len(old)
      BY <1>1, <2>1, <2>4
    <3>2. CASE b \in 1..Len(old)
      <4>1. PICK i \in 1..(n - 1), j \in 1..(n - 1) : i < j /\ old[a] = s[i] /\ old[b] = s[j]
        BY <3>1, <3>2, <2>4, <1>2
      <4> QED
        BY <4>1, <3>1, <3>2, <1>1, <2>1
    <3>3. CASE b = Len(old) + 1
      <4>1. PICK i \in 1..(n - 1) : old[a] = s[i]
        BY <3>1, <1>2
      <4>2. i < n /\ i \in 1..n /\ new[a] = s[i] /\ new[b] = s[n]
        BY <4>1, <3>1, <3>3, <1>1, <2>1
      <4> QED
        BY <4>2, <1>1
    <3> QED
      BY <3>2, <3>3, <2>1
  <2> QED
    BY <2>2, <2>3, <2>4 DEF KeepsFirst
<1> QED
  BY <1>3, <1>4

(* Keep leaves the members of S, in their order.                           *)
LEMMA KeepKeeps ==
  ASSUME NEW T, NEW s \in Seq(T), NEW S
  PROVE  /\ Keep(s, S) \in Seq(T)
         /\ ToSet(Keep(s, S)) = ToSet(s) \cap S
         /\ InOrderOf(Keep(s, S), s)
<1>1. Len(s) \in Nat
  OBVIOUS
<1> PICK kept : KeepsBy(kept, s, S, T)
  BY KeepFolds
<1>2. /\ kept \in [0..Len(s) -> Seq(T)]
      /\ kept[0] = <<>> /\ Keep(s, S) = kept[Len(s)]
      /\ \A i \in 1..Len(s) :
           kept[i] = IF s[i] \in S THEN Append(kept[i - 1], s[i]) ELSE kept[i - 1]
  BY DEF KeepsBy
<1> DEFINE Good == {i \in 0..Len(s) : KeepsFirst(kept[i], s, i, S)}
<1>3. 0 \in Good
  BY <1>1, <1>2 DEF KeepsFirst
<1>4. ASSUME NEW i \in 1..Len(s), i - 1 \in Good
      PROVE  i \in Good
  <2>1. i \in 0..Len(s) /\ kept[i - 1] \in Seq(T) /\ KeepsFirst(kept[i - 1], s, i - 1, S)
    BY <1>1, <1>2, <1>4
  <2> QED
    BY <2>1, <1>2, KeepStep
<1>5. 0..Len(s) \subseteq Good
  <2> HIDE DEF Good
  <2> QED
    BY <1>1, <1>3, <1>4, UpTo
<1>6. KeepsFirst(Keep(s, S), s, Len(s), S) /\ Keep(s, S) \in Seq(T)
  BY <1>1, <1>2, <1>5
<1>7. InOrderOf(Keep(s, S), s)
  BY <1>6 DEF InOrderOf, KeepsFirst
<1>8. ToSet(Keep(s, S)) = ToSet(s) \cap S
  <2>1. ToSet(s) = {s[i] : i \in 1..Len(s)}
        /\ ToSet(Keep(s, S)) = {Keep(s, S)[a] : a \in 1..Len(Keep(s, S))}
    BY <1>6, SetOf
  <2>2. ASSUME NEW a \in 1..Len(Keep(s, S))
        PROVE  Keep(s, S)[a] \in ToSet(s) \cap S
    BY <1>6, <2>1 DEF KeepsFirst
  <2>3. ASSUME NEW i \in 1..Len(s), s[i] \in S
        PROVE  s[i] \in ToSet(Keep(s, S))
    BY <1>6, <2>1, <2>3 DEF KeepsFirst
  <2> QED
    BY <2>1, <2>2, <2>3
<1> QED
  BY <1>6, <1>7, <1>8

(* What is kept of a list without repetition has none.                     *)
LEMMA KeepDistinct ==
  ASSUME NEW T, NEW s \in Seq(T), Distinct(s), NEW S
  PROVE  Distinct(Keep(s, S))
<1>1. InOrderOf(Keep(s, S), s) /\ Keep(s, S) \in Seq(T)
  BY KeepKeeps
<1> SUFFICES ASSUME NEW a \in 1..Len(Keep(s, S)), NEW b \in 1..Len(Keep(s, S)), a < b,
                    Keep(s, S)[a] = Keep(s, S)[b]
             PROVE  FALSE
  BY <1>1 DEF Distinct
<1>2. PICK i \in 1..Len(s), j \in 1..Len(s) : i < j /\ Keep(s, S)[a] = s[i] /\ Keep(s, S)[b] = s[j]
  BY <1>1 DEF InOrderOf
<1>3. s[i] = s[j]
  BY <1>2
<1>4. i # j
  BY <1>2
<1> QED
  BY <1>3, <1>4 DEF Distinct

-----------------------------------------------------------------------------
(* Queues of messages                                                      *)

(* A message about an offer                                                *)
Concerns(m, o) == m.type # "runnerregistered" /\ m.offer = o

(* The types of the messages about offer o, and the requests whose         *)
(* settings are among them.                                                *)
About(queue, o) == {queue[i].type : i \in {i \in 1..Len(queue) : Concerns(queue[i], o)}}

SettingsIn(queue, o) ==
  {queue[i].request : i \in {i \in 1..Len(queue) : Concerns(queue[i], o) /\ queue[i].type = "tasksettings"}}

(* Of two messages about one offer the types are such a pair.              *)
Ordered(queue, pairs) ==
  \A o : \A i, j \in 1..Len(queue) :
    i < j /\ Concerns(queue[i], o) /\ Concerns(queue[j], o) => <<queue[i].type, queue[j].type>> \in pairs

(* When a type or a request is among the messages about an offer           *)
LEMMA AboutIs ==
  ASSUME NEW queue, NEW o
  PROVE  /\ \A x : x \in About(queue, o) <=>
              \E i \in 1..Len(queue) : Concerns(queue[i], o) /\ queue[i].type = x
         /\ \A x : x \in SettingsIn(queue, o) <=>
              \E i \in 1..Len(queue) : /\ Concerns(queue[i], o) /\ queue[i].type = "tasksettings"
                                       /\ queue[i].request = x
BY DEF About, SettingsIn

(* The oldest message is taken: the others stay in order, and only what    *)
(* it concerns changes.                                                    *)
LEMMA QueueTail ==
  ASSUME NEW T, NEW s \in Seq(T), s # <<>>, NEW pairs, Ordered(s, pairs)
  PROVE  /\ Tail(s) \in Seq(T) /\ Head(s) \in T /\ Ordered(Tail(s), pairs)
         /\ \A o : About(Tail(s), o) \subseteq About(s, o) /\ SettingsIn(Tail(s), o) \subseteq SettingsIn(s, o)
         /\ \A o : ~Concerns(Head(s), o) =>
              About(Tail(s), o) = About(s, o) /\ SettingsIn(Tail(s), o) = SettingsIn(s, o)
         /\ \A o : Concerns(Head(s), o) =>
              /\ Head(s).type \in About(s, o)
              /\ Head(s).type = "tasksettings" => Head(s).request \in SettingsIn(s, o)
              /\ \A type \in About(Tail(s), o) : <<Head(s).type, type>> \in pairs
              /\ About(s, o) \subseteq About(Tail(s), o) \cup {Head(s).type}
<1>1. /\ Tail(s) \in Seq(T) /\ Head(s) \in T /\ Head(s) = s[1] /\ Len(s) \in Nat \ {0} /\ 1 \in 1..Len(s)
      /\ Len(Tail(s)) = Len(s) - 1
      /\ \A i \in 1..Len(Tail(s)) : Tail(s)[i] = s[i + 1] /\ i + 1 \in 1..Len(s) /\ 1 < i + 1
      /\ \A i \in 1..Len(s) : i = 1 \/ (i - 1 \in 1..Len(Tail(s)) /\ Tail(s)[i - 1] = s[i])
  <2>1. /\ Tail(s) \in Seq(T) /\ Head(s) \in T /\ Head(s) = s[1] /\ Len(s) \in Nat \ {0}
        /\ Len(Tail(s)) = Len(s) - 1 /\ \A i \in 1..Len(Tail(s)) : Tail(s)[i] = s[i + 1]
    OBVIOUS
  <2>2. ASSUME NEW i \in 1..Len(s), i # 1
        PROVE  i - 1 \in 1..Len(Tail(s)) /\ Tail(s)[i - 1] = s[i]
    BY <2>1, <2>2
  <2> QED
    BY <2>1, <2>2
<1> DEFINE t == Tail(s)
           h == Head(s)
<1> HIDE DEF t, h
<1>2. Ordered(t, pairs)
  BY <1>1 DEF Ordered, t
<1>3. ASSUME NEW o
      PROVE  About(t, o) \subseteq About(s, o) /\ SettingsIn(t, o) \subseteq SettingsIn(s, o)
  BY <1>1 DEF About, SettingsIn, t
<1>4. ASSUME NEW o, ~Concerns(h, o)
      PROVE  About(s, o) \subseteq About(t, o) /\ SettingsIn(s, o) \subseteq SettingsIn(t, o)
  <2>1. ASSUME NEW i \in 1..Len(s), Concerns(s[i], o)
        PROVE  \E j \in 1..Len(t) : t[j] = s[i]
    BY <1>1, <1>4, <2>1 DEF t, h
  <2>2. About(s, o) \subseteq About(t, o)
    BY <2>1, AboutIs
  <2>3. SettingsIn(s, o) \subseteq SettingsIn(t, o)
    BY <2>1, AboutIs
  <2> QED
    BY <2>2, <2>3
<1>5. ASSUME NEW o, Concerns(h, o)
      PROVE  /\ h.type \in About(s, o)
             /\ h.type = "tasksettings" => h.request \in SettingsIn(s, o)
             /\ \A type \in About(t, o) : <<h.type, type>> \in pairs
             /\ About(s, o) \subseteq About(t, o) \cup {h.type}
  <2>1. h.type \in About(s, o) /\ (h.type = "tasksettings" => h.request \in SettingsIn(s, o))
    BY <1>1, <1>5 DEF About, SettingsIn, h
  <2>2. \A type \in About(t, o) : <<h.type, type>> \in pairs
    BY <1>1, <1>5 DEF About, Ordered, t, h
  <2>3. ASSUME NEW x \in About(s, o)
        PROVE  x \in About(t, o) \cup {h.type}
    <3>1. PICK i \in 1..Len(s) : Concerns(s[i], o) /\ s[i].type = x
      BY AboutIs
    <3>2. s[i] = h \/ \E j \in 1..Len(t) : t[j] = s[i]
      BY <1>1 DEF t, h
    <3> QED
      BY <3>1, <3>2, AboutIs
  <2> QED
    BY <2>1, <2>2, <2>3
<1>6. ASSUME NEW o, ~Concerns(h, o)
      PROVE  About(t, o) = About(s, o) /\ SettingsIn(t, o) = SettingsIn(s, o)
  <2>1. About(t, o) \subseteq About(s, o) /\ SettingsIn(t, o) \subseteq SettingsIn(s, o)
    BY <1>3
  <2>2. About(s, o) \subseteq About(t, o) /\ SettingsIn(s, o) \subseteq SettingsIn(t, o)
    BY <1>4, <1>6
  <2> QED
    BY <2>1, <2>2
<1>7. t \in Seq(T) /\ h \in T
  BY <1>1 DEF t, h
<1> QED
  BY <1>2, <1>3, <1>5, <1>6, <1>7 DEF t, h

(* Messages are added at the end of a queue, and may follow what is        *)
(* there.                                                                  *)
LEMMA QueueConcat ==
  ASSUME NEW T, NEW s \in Seq(T), NEW t \in Seq(T), NEW pairs, Ordered(s, pairs), Ordered(t, pairs),
         \A o : \A x \in About(s, o), y \in About(t, o) : <<x, y>> \in pairs
  PROVE  /\ s \o t \in Seq(T) /\ Ordered(s \o t, pairs)
         /\ \A o : /\ About(s \o t, o) = About(s, o) \cup About(t, o)
                   /\ SettingsIn(s \o t, o) = SettingsIn(s, o) \cup SettingsIn(t, o)
<1> DEFINE u == s \o t
<1>1. /\ u \in Seq(T) /\ Len(s) \in Nat /\ Len(t) \in Nat /\ Len(u) = Len(s) + Len(t)
      /\ \A i \in 1..Len(s) : i \in 1..Len(u) /\ u[i] = s[i]
      /\ \A i \in 1..Len(t) : Len(s) + i \in 1..Len(u) /\ u[Len(s) + i] = t[i]
      /\ \A i \in 1..Len(u) : \/ i \in 1..Len(s) /\ u[i] = s[i]
                              \/ i - Len(s) \in 1..Len(t) /\ u[i] = t[i - Len(s)] /\ i > Len(s)
  OBVIOUS
<1> HIDE DEF u
<1>2. ASSUME NEW o, NEW i \in 1..Len(u), NEW j \in 1..Len(u), i < j, Concerns(u[i], o), Concerns(u[j], o)
      PROVE  <<u[i].type, u[j].type>> \in pairs
  <2>1. CASE j \in 1..Len(s) /\ u[j] = s[j]
    <3>1. i \in 1..Len(s) /\ u[i] = s[i]
      BY <1>1, <1>2, <2>1
    <3> QED
      BY <3>1, <2>1, <1>2 DEF Ordered
  <2>2. CASE j - Len(s) \in 1..Len(t) /\ u[j] = t[j - Len(s)] /\ j > Len(s)
    <3>1. CASE i \in 1..Len(s) /\ u[i] = s[i]
      <4>1. u[i].type \in About(s, o) /\ u[j].type \in About(t, o)
        BY <3>1, <2>2, <1>2 DEF About
      <4> QED
        BY <4>1
    <3>2. CASE i - Len(s) \in 1..Len(t) /\ u[i] = t[i - Len(s)] /\ i > Len(s)
      <4>1. i - Len(s) < j - Len(s)
        BY <1>1, <1>2
      <4> QED
        BY <4>1, <3>2, <2>2, <1>2 DEF Ordered
    <3> QED
      BY <3>1, <3>2, <1>1
  <2> QED
    BY <2>1, <2>2, <1>1
<1>3. ASSUME NEW o
      PROVE  /\ About(u, o) = About(s, o) \cup About(t, o)
             /\ SettingsIn(u, o) = SettingsIn(s, o) \cup SettingsIn(t, o)
  <2>1. ASSUME NEW i \in 1..Len(u)
        PROVE  (\E j \in 1..Len(s) : s[j] = u[i]) \/ (\E j \in 1..Len(t) : t[j] = u[i])
    BY <1>1
  <2>2. ASSUME NEW x \in About(u, o)
        PROVE  x \in About(s, o) \cup About(t, o)
    <3>1. PICK i \in 1..Len(u) : Concerns(u[i], o) /\ u[i].type = x
      BY AboutIs
    <3> QED
      BY <3>1, <2>1, AboutIs
  <2>3. ASSUME NEW x \in SettingsIn(u, o)
        PROVE  x \in SettingsIn(s, o) \cup SettingsIn(t, o)
    <3>1. PICK i \in 1..Len(u) :
            Concerns(u[i], o) /\ u[i].type = "tasksettings" /\ u[i].request = x
      BY AboutIs
    <3> QED
      BY <3>1, <2>1, AboutIs
  <2>4. \A m : (\E j \in 1..Len(s) : s[j] = m) \/ (\E j \in 1..Len(t) : t[j] = m)
                  => \E i \in 1..Len(u) : u[i] = m
    BY <1>1
  <2>5. ASSUME NEW x \in About(s, o) \cup About(t, o)
        PROVE  x \in About(u, o)
    <3>1. PICK m : /\ (\E j \in 1..Len(s) : s[j] = m) \/ (\E j \in 1..Len(t) : t[j] = m)
                   /\ Concerns(m, o) /\ m.type = x
      BY AboutIs
    <3>2. PICK i \in 1..Len(u) : u[i] = m
      BY <3>1, <2>4
    <3> QED
      BY <3>1, <3>2, AboutIs
  <2>6. ASSUME NEW x \in SettingsIn(s, o) \cup SettingsIn(t, o)
        PROVE  x \in SettingsIn(u, o)
    <3>1. PICK m : /\ (\E j \in 1..Len(s) : s[j] = m) \/ (\E j \in 1..Len(t) : t[j] = m)
                   /\ Concerns(m, o) /\ m.type = "tasksettings" /\ m.request = x
      BY AboutIs
    <3>2. PICK i \in 1..Len(u) : u[i] = m
      BY <3>1, <2>4
    <3> QED
      BY <3>1, <3>2, AboutIs
  <2> QED
    BY <2>2, <2>3, <2>5, <2>6
<1> QED
  BY <1>1, <1>2, <1>3 DEF Ordered, u

(* The first messages of a queue are in order.                             *)
LEMMA QueuePrefix ==
  ASSUME NEW T, NEW s \in Seq(T), NEW n \in 0..Len(s), NEW pairs, Ordered(s, pairs)
  PROVE  /\ SubSeq(s, 1, n) \in Seq(T) /\ Ordered(SubSeq(s, 1, n), pairs)
         /\ \A o : About(SubSeq(s, 1, n), o) \subseteq About(s, o)
<1> DEFINE t == SubSeq(s, 1, n)
<1>1. t \in Seq(T) /\ Len(t) = n /\ \A i \in 1..Len(t) : t[i] = s[i] /\ i \in 1..Len(s)
  OBVIOUS
<1> HIDE DEF t
<1>2. Ordered(t, pairs)
  BY <1>1 DEF Ordered
<1>3. \A o : About(t, o) \subseteq About(s, o)
  BY <1>1 DEF About
<1> QED
  BY <1>1, <1>2, <1>3 DEF t

(* Nothing is in an empty queue.                                           *)
LEMMA QueueEmpty ==
  \A pairs, o : About(<<>>, o) = {} /\ SettingsIn(<<>>, o) = {} /\ Ordered(<<>>, pairs)
BY DEF About, SettingsIn, Ordered

(* One message is in order.                                                *)
LEMMA QueueOne ==
  ASSUME NEW m, NEW pairs
  PROVE  /\ Ordered(<<m>>, pairs)
         /\ \A o : /\ About(<<m>>, o) = IF Concerns(m, o) THEN {m.type} ELSE {}
                   /\ SettingsIn(<<m>>, o) =
                        IF Concerns(m, o) /\ m.type = "tasksettings" THEN {m.request} ELSE {}
<1>1. Len(<<m>>) = 1 /\ <<m>>[1] = m
  OBVIOUS
<1>2. Ordered(<<m>>, pairs)
  BY <1>1 DEF Ordered
<1>3. ASSUME NEW o
      PROVE  About(<<m>>, o) = IF Concerns(m, o) THEN {m.type} ELSE {}
  BY <1>1 DEF About
<1>4. ASSUME NEW o
      PROVE  SettingsIn(<<m>>, o) = IF Concerns(m, o) /\ m.type = "tasksettings" THEN {m.request} ELSE {}
  BY <1>1 DEF SettingsIn
<1> QED
  BY <1>2, <1>3, <1>4

(* One message of a type for each offer of a list                          *)
LEMMA QueueOfOffers ==
  ASSUME NEW s \in Seq(Offer), Distinct(s), NEW type \in {"taskoffer", "taskofferaccept"}, NEW pairs,
         NEW t, t = [i \in 1..Len(s) |-> Message(type, s[i])]
  PROVE  /\ t \in Seq([type : {type}, offer : Offer]) /\ Ordered(t, pairs)
         /\ \A o : About(t, o) = (IF o \in ToSet(s) THEN {type} ELSE {}) /\ SettingsIn(t, o) = {}
<1>1. /\ Len(s) \in Nat /\ \A i \in 1..Len(s) : s[i] \in Offer
      /\ ToSet(s) = {s[i] : i \in 1..Len(s)}
  BY SetOf
<1>2. t \in Seq([type : {type}, offer : Offer]) /\ Len(t) = Len(s)
  BY <1>1 DEF Message
<1>3. \A i \in 1..Len(s) : t[i].type = type /\ t[i].offer = s[i]
  BY <1>1 DEF Message
<1>4. \A i \in 1..Len(s) : \A o : Concerns(t[i], o) <=> o = s[i]
  BY <1>3 DEF Concerns
<1>5. Ordered(t, pairs)
  <2> SUFFICES ASSUME NEW o, NEW i \in 1..Len(s), NEW j \in 1..Len(s), i < j,
                      Concerns(t[i], o), Concerns(t[j], o)
               PROVE  FALSE
    BY <1>2 DEF Ordered
  <2>1. o = s[i] /\ o = s[j]
    BY <1>4
  <2>2. i # j
    OBVIOUS
  <2> QED
    BY <2>1, <2>2 DEF Distinct
<1>6. \A o : SettingsIn(t, o) = {}
  BY <1>2, <1>3 DEF SettingsIn
<1>7. ASSUME NEW o
      PROVE  About(t, o) = IF o \in ToSet(s) THEN {type} ELSE {}
  BY <1>1, <1>2, <1>3, <1>4 DEF About
<1> QED
  BY <1>2, <1>5, <1>6, <1>7

-----------------------------------------------------------------------------
(* The queues of all runners                                               *)

(* Each runner's queue is in order and concerns its own offers only.       *)
InGoodOrder(queues, T, pairs) ==
  /\ queues \in [Runner -> Seq(T)]
  /\ \A r \in Runner :
       /\ Ordered(queues[r], pairs)
       /\ \A o : About(queues[r], o) # {} => o \in OffersOf(r)

(* The types of the messages about offer o, in the queue of its runner     *)
At(queues, o) == About(queues[o[1]], o)
SettingsAt(queues, o) == SettingsIn(queues[o[1]], o)

(* An offer is one of its runner's.                                        *)
LEMMA OfferOf == \A o \in Offer : o[1] \in Runner /\ o \in OffersOf(o[1])
BY DEF Offer, OffersOf

(* The oldest message for runner r is taken, and the rest is left.         *)
TakenFrom(queues, r, rest, T, pairs) ==
  LET h == Head(queues[r]) IN
  /\ InGoodOrder(rest, T, pairs) /\ h \in T
  /\ \A o \in Offer :
       /\ At(rest, o) \subseteq At(queues, o)
       /\ SettingsAt(rest, o) \subseteq SettingsAt(queues, o)
       /\ ~Concerns(h, o) =>
            At(rest, o) = At(queues, o) /\ SettingsAt(rest, o) = SettingsAt(queues, o)
  /\ h.type # "runnerregistered" =>
       /\ h.offer \in Offer /\ h.offer[1] = r /\ h.type \in At(queues, h.offer)
       /\ h.type = "tasksettings" => h.request \in SettingsAt(queues, h.offer)
       /\ \A type \in At(rest, h.offer) : <<h.type, type>> \in pairs
       /\ At(queues, h.offer) \subseteq At(rest, h.offer) \cup {h.type}

(* A message is taken from the queue of runner r.                          *)
LEMMA QueuesTake ==
  ASSUME NEW T, NEW pairs, NEW queues, InGoodOrder(queues, T, pairs), NEW r \in Runner, queues[r] # <<>>,
         NEW rest, rest = [queues EXCEPT ![r] = Tail(@)]
  PROVE  TakenFrom(queues, r, rest, T, pairs)
<1> DEFINE s == queues[r]
           h == Head(s)
<1>1. /\ s \in Seq(T) /\ s # <<>> /\ Ordered(s, pairs) /\ queues \in [Runner -> Seq(T)]
      /\ \A o : About(s, o) # {} => o \in OffersOf(r)
  BY DEF InGoodOrder
<1> HIDE DEF s
<1>2. /\ Tail(s) \in Seq(T) /\ h \in T /\ Ordered(Tail(s), pairs)
      /\ \A o : About(Tail(s), o) \subseteq About(s, o) /\ SettingsIn(Tail(s), o) \subseteq SettingsIn(s, o)
      /\ \A o : ~Concerns(h, o) =>
              About(Tail(s), o) = About(s, o) /\ SettingsIn(Tail(s), o) = SettingsIn(s, o)
      /\ \A o : Concerns(h, o) =>
              /\ h.type \in About(s, o)
              /\ h.type = "tasksettings" => h.request \in SettingsIn(s, o)
              /\ \A type \in About(Tail(s), o) : <<h.type, type>> \in pairs
              /\ About(s, o) \subseteq About(Tail(s), o) \cup {h.type}
  BY <1>1, QueueTail
<1> HIDE DEF h
<1>3. /\ rest \in [Runner -> Seq(T)] /\ rest[r] = Tail(s)
      /\ \A q \in Runner : q # r => rest[q] = queues[q]
  BY <1>1, <1>2 DEF s
<1>4. InGoodOrder(rest, T, pairs)
  <2>1. ASSUME NEW q \in Runner
        PROVE  Ordered(rest[q], pairs) /\ \A o : About(rest[q], o) # {} => o \in OffersOf(q)
    <3>1. CASE q = r
      BY <3>1, <1>1, <1>2, <1>3
    <3>2. CASE q # r
      BY <3>2, <1>3 DEF InGoodOrder
    <3> QED
      BY <3>1, <3>2
  <2> QED
    BY <2>1, <1>3 DEF InGoodOrder
<1>5. ASSUME NEW o \in Offer
      PROVE  /\ At(rest, o) \subseteq At(queues, o)
             /\ SettingsAt(rest, o) \subseteq SettingsAt(queues, o)
             /\ ~Concerns(h, o) =>
                  At(rest, o) = At(queues, o) /\ SettingsAt(rest, o) = SettingsAt(queues, o)
  <2>1. CASE o[1] = r
    BY <2>1, <1>2, <1>3 DEF At, SettingsAt, s
  <2>2. CASE o[1] # r
    BY <2>2, <1>3, OfferOf DEF At, SettingsAt
  <2> QED
    BY <2>1, <2>2
<1>6. ASSUME h.type # "runnerregistered", NEW o, o = h.offer
      PROVE  /\ o \in Offer /\ o[1] = r /\ h.type \in At(queues, o)
             /\ h.type = "tasksettings" => h.request \in SettingsAt(queues, o)
             /\ \A type \in At(rest, o) : <<h.type, type>> \in pairs
             /\ At(queues, o) \subseteq At(rest, o) \cup {h.type}
  <2>1. Concerns(h, o)
    BY <1>6 DEF Concerns
  <2>2. o \in Offer /\ o[1] = r
    BY <2>1, <1>1, <1>2 DEF OffersOf
  <2> QED
    BY <2>1, <2>2, <1>2, <1>3 DEF At, SettingsAt, s
<1> QED
  BY <1>2, <1>4, <1>5, <1>6 DEF s, h, TakenFrom

(* Messages are added at the end of the queues, and may come there.        *)
Joined(queues, extra) == [r \in Runner |-> queues[r] \o extra[r]]

MayFollow(extra, queues, pairs) ==
  \A o \in Offer : \A x \in At(queues, o), y \in At(extra, o) : <<x, y>> \in pairs

(* Messages are added to the queues.                                       *)
LEMMA QueuesGrow ==
  ASSUME NEW T, NEW pairs, NEW queues, InGoodOrder(queues, T, pairs),
         NEW extra, InGoodOrder(extra, T, pairs), MayFollow(extra, queues, pairs),
         NEW more, more = Joined(queues, extra)
  PROVE  /\ InGoodOrder(more, T, pairs)
         /\ \A o \in Offer : /\ At(more, o) = At(queues, o) \cup At(extra, o)
                             /\ SettingsAt(more, o) = SettingsAt(queues, o) \cup SettingsAt(extra, o)
<1>1. ASSUME NEW r \in Runner
      PROVE  /\ more[r] \in Seq(T) /\ Ordered(more[r], pairs)
             /\ \A o : /\ About(more[r], o) = About(queues[r], o) \cup About(extra[r], o)
                       /\ SettingsIn(more[r], o) = SettingsIn(queues[r], o) \cup SettingsIn(extra[r], o)
  <2>1. /\ queues[r] \in Seq(T) /\ extra[r] \in Seq(T)
        /\ Ordered(queues[r], pairs) /\ Ordered(extra[r], pairs)
        /\ \A o : About(queues[r], o) # {} => o \in OffersOf(r)
    BY DEF InGoodOrder
  <2>2. ASSUME NEW o, NEW x \in About(queues[r], o), NEW y \in About(extra[r], o)
        PROVE  <<x, y>> \in pairs
    <3>1. o \in Offer /\ o[1] = r
      BY <2>1 DEF OffersOf
    <3> QED
      BY <3>1 DEF At, MayFollow
  <2>3. more[r] = queues[r] \o extra[r]
    BY DEF Joined
  <2> QED
    BY <2>1, <2>2, <2>3, QueueConcat
<1>2. \A r \in Runner : \A o : About(more[r], o) # {} => o \in OffersOf(r)
  BY <1>1 DEF InGoodOrder
<1>3. more \in [Runner -> Seq(T)]
  <2>1. more = [r \in Runner |-> more[r]]
    BY DEF Joined
  <2> QED
    BY <2>1, <1>1
<1> QED
  BY <1>1, <1>2, <1>3, OfferOf DEF InGoodOrder, At, SettingsAt

(* Of the queue of runner r its first n messages are left.                 *)
CutTo(n, queues, r, rest, T, pairs) ==
  /\ InGoodOrder(rest, T, pairs)
  /\ \A o \in Offer : At(rest, o) \subseteq At(queues, o) /\ (o[1] # r => At(rest, o) = At(queues, o))
  /\ n = 0 => /\ rest[r] = <<>>
              /\ \A o \in OffersOf(r) : At(rest, o) = {} /\ SettingsAt(rest, o) = {}

(* Messages at the end of the queue of runner r are lost.                  *)
LEMMA QueuesCut ==
  ASSUME NEW T, NEW pairs, NEW queues, InGoodOrder(queues, T, pairs), NEW r \in Runner,
         NEW n \in 0..Len(queues[r]), NEW rest, rest = [queues EXCEPT ![r] = SubSeq(@, 1, n)]
  PROVE  CutTo(n, queues, r, rest, T, pairs)
<1>1. queues[r] \in Seq(T) /\ Ordered(queues[r], pairs) /\ queues \in [Runner -> Seq(T)]
  BY DEF InGoodOrder
<1>2. /\ SubSeq(queues[r], 1, n) \in Seq(T) /\ Ordered(SubSeq(queues[r], 1, n), pairs)
      /\ \A o : About(SubSeq(queues[r], 1, n), o) \subseteq About(queues[r], o)
  BY <1>1, QueuePrefix
<1>3. /\ rest \in [Runner -> Seq(T)] /\ rest[r] = SubSeq(queues[r], 1, n)
      /\ \A q \in Runner : q # r => rest[q] = queues[q]
  BY <1>1, <1>2
<1>4. InGoodOrder(rest, T, pairs)
  <2>1. ASSUME NEW q \in Runner
        PROVE  Ordered(rest[q], pairs) /\ \A o : About(rest[q], o) # {} => o \in OffersOf(q)
    <3>1. CASE q = r
      BY <3>1, <1>2, <1>3 DEF InGoodOrder
    <3>2. CASE q # r
      BY <3>2, <1>3 DEF InGoodOrder
    <3> QED
      BY <3>1, <3>2
  <2> QED
    BY <2>1, <1>3 DEF InGoodOrder
<1>5. \A o \in Offer : At(rest, o) \subseteq At(queues, o) /\ (o[1] # r => At(rest, o) = At(queues, o))
  BY <1>2, <1>3, OfferOf DEF At
<1>6. ASSUME n = 0
      PROVE  rest[r] = <<>> /\ \A o \in OffersOf(r) : At(rest, o) = {} /\ SettingsAt(rest, o) = {}
  <2>1. rest[r] = <<>>
    BY <1>1, <1>3, <1>6
  <2> QED
    BY <2>1, QueueEmpty DEF At, SettingsAt, OffersOf
<1> QED
  BY <1>4, <1>5, <1>6 DEF CutTo

-----------------------------------------------------------------------------
(* The inductive invariant                                                 *)

(* About one offer, a runner may report an error after its acceptance, and *)
(* may be told to cancel after it was sent the settings.                   *)
ToBrokerOrder == {<<"taskaccepted", "taskerror">>}
ToRunnerOrder == {<<"tasksettings", "taskcancel">>, <<"taskcancel", "taskcancel">>}

(* Both directions of all connections                                      *)
QueuesOrdered ==
  /\ InGoodOrder(toBroker, RunnerMessage, ToBrokerOrder)
  /\ InGoodOrder(toRunner, BrokerMessage, ToRunnerOrder)

(* On the way to the broker, and on the way to the runner                  *)
AtBroker(o) == At(toBroker, o)
AtRunner(o) == At(toRunner, o)
SettingsOf(o) == SettingsAt(toRunner, o)

(* A runner with a connection is known, and only it has mail; one that     *)
(* starts has no tasks.                                                    *)
Connected ==
  \A r \in Runner :
    /\ process[r] = "connected" => r \in knownRunners
    /\ toRunner[r] # <<>> => process[r] = "connected"
    /\ \A o \in OffersOf(r) : status[o] # "none" => process[r] # "starting"

(* No offer and no request is twice in the broker's lists.                 *)
Lists == Distinct(pendingTaskOffers) /\ Distinct(pendingTaskRequests)

(* What is being accepted has its flag, and was requested.                 *)
AcceptingFlagged ==
  /\ \A o \in Offer : accepting[o] # None => accepting[o] \in acceptInProgress
  /\ \A q \in acceptInProgress : outcome[q] # "idle"

(* An offer nobody has taken yet                                           *)
OfferIsFree(o) ==
  /\ "taskoffer" \in AtBroker(o) \/ o \in ToSet(pendingTaskOffers) =>
       AtRunner(o) = {} /\ tasks[o] = None /\ accepting[o] = None /\ status[o] = "none"
  /\ o \in ToSet(pendingTaskOffers) => AtBroker(o) = {}

(* The acceptance on its way to the runner, and its answer                 *)
AcceptanceIsAlone(o) ==
  /\ "taskofferaccept" \in AtRunner(o) => AtBroker(o) = {} /\ tasks[o] = None /\ status[o] = "none"
  /\ "taskaccepted" \in AtBroker(o) =>
       AtRunner(o) = {} /\ tasks[o] = None /\ status[o] \in {"waitingForSettings", "none"}

(* A runner that has a task has not reported its end.                      *)
EndIsLast(o) ==
  status[o] # "none" =>
    AtBroker(o) \subseteq (IF status[o] = "waitingForSettings" THEN {"taskaccepted"} ELSE {})

(* Settings that can still start a task are those of the broker's task, or *)
(* its cancellation follows them.                                          *)
SettingsAreCurrent(o) ==
  \A q \in SettingsOf(o) :
    /\ status[o] \in {"waitingForSettings", "none"}
    /\ status[o] = "waitingForSettings" =>
         AtBroker(o) = {} /\ (External => tasks[o] = q \/ "taskcancel" \in AtRunner(o))

(* What a connected runner executes is the broker's task, or its           *)
(* cancellation is on the way.                                             *)
ExecutionIsCurrent(o) ==
  status[o] = "running" /\ External /\ process[o[1]] = "connected" =>
    tasks[o] = executes[o] \/ "taskcancel" \in AtRunner(o)

(* Only tasks have a timer.                                                *)
TimerHasTask(o) == o \in taskTimer => tasks[o] # None

(* How far offer o is, on both sides and in between                        *)
Phase(o) ==
  /\ OfferIsFree(o) /\ AcceptanceIsAlone(o) /\ EndIsLast(o)
  /\ SettingsAreCurrent(o) /\ ExecutionIsCurrent(o) /\ TimerHasTask(o)

Phases == \A o \in Offer : Phase(o)

(* A requester whose task runs knows which.                                *)
RunningHasTask == \A q \in Request : outcome[q] = "running" => taskOf[q] \in Offer

(* The inductive invariant: types, the phase of every offer, and the       *)
(* properties that hold from step to step only together with it            *)
Inv ==
  /\ TypeOK /\ QueuesOrdered /\ Connected /\ Phases
  /\ Lists /\ AcceptingFlagged /\ RunningHasTask
  /\ PendingIsRequested /\ OneAcceptance /\ RunningIsWatched

(* The phase of an offer lasts while no message about it arrives, nothing  *)
(* about it changes, and it is put on no list.                             *)
LEMMA PhaseKept ==
  ASSUME NEW o \in Offer, Phase(o),
         AtBroker(o)' \subseteq AtBroker(o), AtRunner(o)' = AtRunner(o), SettingsOf(o)' \subseteq SettingsOf(o),
         o \in ToSet(pendingTaskOffers') => o \in ToSet(pendingTaskOffers),
         tasks'[o] = tasks[o], accepting'[o] \in {accepting[o], None},
         status'[o] = status[o], executes'[o] = executes[o],
         process'[o[1]] = "connected" => process[o[1]] = "connected" \/ status[o] = "none",
         o \in taskTimer' => o \in taskTimer
  PROVE  Phase(o)'
<1>1. OfferIsFree(o)'
  BY DEF Phase, OfferIsFree
<1>2. AcceptanceIsAlone(o)'
  BY DEF Phase, AcceptanceIsAlone
<1>3. EndIsLast(o)'
  BY DEF Phase, EndIsLast
<1>4. SettingsAreCurrent(o)'
  BY DEF Phase, SettingsAreCurrent
<1>5. ExecutionIsCurrent(o)' /\ TimerHasTask(o)'
  BY DEF Phase, ExecutionIsCurrent, TimerHasTask
<1> QED
  BY <1>1, <1>2, <1>3, <1>4, <1>5 DEF Phase

-----------------------------------------------------------------------------
(* Matching                                                                *)

(* The messages that are sent are messages.                                *)
LEMMA MessageSets ==
  ASSUME NEW o \in Offer
  PROVE  /\ Message("taskofferaccept", o) \in BrokerMessage /\ Message("taskcancel", o) \in BrokerMessage
         /\ \A q \in Request : [type |-> "tasksettings", offer |-> o, request |-> q] \in BrokerMessage
         /\ [type : {"taskofferaccept"}, offer : Offer] \subseteq BrokerMessage
         /\ \A type \in {"taskoffer", "taskaccepted", "taskrejected", "taskdone", "taskerror"} :
              Message(type, o) \in RunnerMessage
         /\ [type : {"taskoffer"}, offer : Offer] \subseteq RunnerMessage
BY DEF BrokerMessage, RunnerMessage, Message

(* The messages of acceptOffer to runner r: one for each of its matched    *)
(* offers                                                                  *)
LEMMA AcceptsDo ==
  ASSUME NEW m \in Seq(Offer), Distinct(m), NEW r \in Runner
  PROVE  /\ Accepts(r, m) \in Seq(BrokerMessage) /\ Ordered(Accepts(r, m), ToRunnerOrder)
         /\ \A o : /\ About(Accepts(r, m), o) =
                        (IF o \in ToSet(m) \cap OffersOf(r) THEN {"taskofferaccept"} ELSE {})
                   /\ SettingsIn(Accepts(r, m), o) = {}
<1> DEFINE own == Keep(m, OffersOf(r))
<1>1. own \in Seq(Offer) /\ ToSet(own) = ToSet(m) \cap OffersOf(r) /\ Distinct(own)
  BY KeepKeeps, KeepDistinct
<1>2. Accepts(r, m) = [i \in 1..Len(own) |-> Message("taskofferaccept", own[i])]
  BY DEF Accepts
<1> HIDE DEF own
<1>3. /\ Accepts(r, m) \in Seq([type : {"taskofferaccept"}, offer : Offer])
      /\ Ordered(Accepts(r, m), ToRunnerOrder)
      /\ \A o : /\ About(Accepts(r, m), o) = (IF o \in ToSet(own) THEN {"taskofferaccept"} ELSE {})
                /\ SettingsIn(Accepts(r, m), o) = {}
  BY <1>1, <1>2, QueueOfOffers
<1>4. [type : {"taskofferaccept"}, offer : Offer] \subseteq BrokerMessage
  BY DEF BrokerMessage
<1>5. Accepts(r, m) \in Seq(BrokerMessage)
  BY <1>3, <1>4, SeqMonotonic
<1> QED
  BY <1>1, <1>3, <1>5

(* What settleTasks does: some of the offers are matched, each with a      *)
(* request of its own that was not being accepted, and only runners that   *)
(* are connected hear of it.                                               *)
Matching(matched, partner, extra, offers, requests) ==
  /\ matched \subseteq ToSet(offers) /\ pendingTaskOffers' \in Seq(Offer) /\ Distinct(pendingTaskOffers')
  /\ ToSet(pendingTaskOffers') \subseteq ToSet(offers) \ matched
  /\ pendingTaskRequests' = requests
  /\ partner \in [matched -> ToSet(requests) \ acceptInProgress]
  /\ \A o, p \in matched : partner[o] = partner[p] => o = p
  /\ accepting' = [o \in Offer |-> IF o \in matched THEN partner[o] ELSE accepting[o]]
  /\ acceptInProgress' = acceptInProgress \cup {partner[o] : o \in matched}
  /\ InGoodOrder(extra, BrokerMessage, ToRunnerOrder)
  /\ \A r \in Runner : extra[r] # <<>> => Hears(r)
  /\ \A o \in Offer : /\ At(extra, o) \subseteq (IF o \in matched THEN {"taskofferaccept"} ELSE {})
                      /\ SettingsAt(extra, o) = {}
  /\ toRunner' = Joined(toRunner, extra)

(* The first n of a list of offers are matched, the rest is left.          *)
LEMMA PairedOff ==
  ASSUME NEW left \in Seq(Offer), Distinct(left), NEW n \in 0..Len(left),
         NEW m \in Seq(Offer), Len(m) = n, \A i \in 1..n : m[i] = left[i] /\ i \in 1..Len(left),
         NEW rest \in Seq(Offer), Len(rest) = Len(left) - n,
         \A i \in 1..(Len(left) - n) : rest[i] = left[n + i] /\ n + i \in 1..Len(left)
  PROVE  /\ Distinct(m) /\ ToSet(m) \subseteq ToSet(left)
         /\ Distinct(rest) /\ ToSet(rest) \subseteq ToSet(left) \ ToSet(m)
<1>1. Len(left) \in Nat /\ n \in Nat /\ 1..Len(rest) = 1..(Len(left) - n)
  OBVIOUS
<1>2. Distinct(m)
  BY DEF Distinct
<1>3. ASSUME NEW i \in 1..Len(rest), NEW j \in 1..Len(rest), rest[i] = rest[j]
      PROVE  i = j
  <2>1. left[n + i] = left[n + j] /\ n + i \in 1..Len(left) /\ n + j \in 1..Len(left)
    BY <1>1, <1>3
  <2>2. n + i = n + j
    BY <2>1 DEF Distinct
  <2> QED
    BY <2>2, <1>1
<1>4. ToSet(left) = {left[i] : i \in 1..Len(left)}
  BY SetOf
<1>5. ToSet(m) = {m[i] : i \in 1..n}
  BY SetOf
<1>6. ToSet(rest) = {rest[i] : i \in 1..Len(rest)}
  BY SetOf
<1>7. ToSet(m) \subseteq ToSet(left)
  BY <1>4, <1>5
<1>8. ASSUME NEW i \in 1..Len(rest)
      PROVE  rest[i] \in ToSet(left) \ ToSet(m)
  <2>1. rest[i] = left[n + i] /\ n + i \in 1..Len(left)
    BY <1>1
  <2>2. ASSUME NEW j \in 1..n, m[j] = rest[i]
        PROVE  FALSE
    <3>1. left[j] = left[n + i] /\ j \in 1..Len(left)
      BY <2>1, <2>2
    <3>2. j = n + i
      BY <3>1, <2>1 DEF Distinct
    <3>3. j <= n /\ i >= 1 /\ i \in Nat /\ j \in Nat
      BY <1>1
    <3> QED
      BY <3>2, <3>3, <1>1
  <2>3. rest[i] \in ToSet(left)
    BY <1>4, <2>1
  <2> QED
    BY <1>5, <2>2, <2>3
<1>9. ToSet(rest) \subseteq ToSet(left) \ ToSet(m)
  BY <1>6, <1>8
<1> QED
  BY <1>2, <1>3, <1>7, <1>9 DEF Distinct

(* settleTasks does what Matching says.                                    *)
LEMMA SettleDoes ==
  ASSUME QueuesOrdered, NEW offers \in Seq(Offer), Distinct(offers),
         NEW requests \in Seq(Request), Distinct(requests), SettleTasks(offers, requests)
  PROVE  \E matched, partner, extra : Matching(matched, partner, extra, offers, requests)
<1>1. PICK expired \in SUBSET ToSet(offers) :
        LET left    == Keep(offers, Offer \ expired)
            waiting == Keep(requests, Request \ acceptInProgress)
            n       == IF Len(left) < Len(waiting) THEN Len(left) ELSE Len(waiting)
            m       == SubSeq(left, 1, n) IN
        /\ pendingTaskOffers' = SubSeq(left, n + 1, Len(left))
        /\ pendingTaskRequests' = requests
        /\ acceptInProgress' = acceptInProgress \cup {waiting[i] : i \in 1..n}
        /\ accepting' = [o \in Offer |->
             IF o \in ToSet(m) THEN waiting[CHOOSE i \in 1..n : m[i] = o] ELSE accepting[o]]
        /\ toRunner' = [r \in Runner |->
             IF Hears(r) THEN toRunner[r] \o Accepts(r, m) ELSE toRunner[r]]
  BY DEF SettleTasks
<1> DEFINE left    == Keep(offers, Offer \ expired)
           waiting == Keep(requests, Request \ acceptInProgress)
           n       == IF Len(left) < Len(waiting) THEN Len(left) ELSE Len(waiting)
           m       == SubSeq(left, 1, n)
           rest    == SubSeq(left, n + 1, Len(left))
           matched == ToSet(m)
           index   == [o \in matched |-> CHOOSE i \in 1..n : m[i] = o]
           partner == [o \in matched |-> waiting[index[o]]]
           extra   == [r \in Runner |-> IF Hears(r) THEN Accepts(r, m) ELSE <<>>]
<1>2. /\ left \in Seq(Offer) /\ Distinct(left) /\ ToSet(left) \subseteq ToSet(offers)
      /\ waiting \in Seq(Request) /\ Distinct(waiting)
      /\ ToSet(waiting) \subseteq ToSet(requests) \ acceptInProgress
  <2>1. left \in Seq(Offer) /\ ToSet(left) = ToSet(offers) \cap (Offer \ expired)
    BY KeepKeeps
  <2>2. waiting \in Seq(Request) /\ ToSet(waiting) = ToSet(requests) \cap (Request \ acceptInProgress)
    BY KeepKeeps
  <2>3. Distinct(left) /\ Distinct(waiting)
    BY KeepDistinct
  <2> QED
    BY <2>1, <2>2, <2>3
<1>3. /\ pendingTaskOffers' = rest /\ pendingTaskRequests' = requests
      /\ acceptInProgress' = acceptInProgress \cup {waiting[i] : i \in 1..n}
      /\ accepting' = [o \in Offer |->
           IF o \in matched THEN waiting[CHOOSE i \in 1..n : m[i] = o] ELSE accepting[o]]
      /\ toRunner' = [r \in Runner |->
           IF Hears(r) THEN toRunner[r] \o Accepts(r, m) ELSE toRunner[r]]
  BY <1>1
<1> HIDE DEF left, waiting
<1>4. /\ n \in Nat /\ m \in Seq(Offer) /\ Len(m) = n /\ Distinct(m) /\ ToSet(m) \subseteq ToSet(left)
      /\ rest \in Seq(Offer) /\ Distinct(rest) /\ ToSet(rest) \subseteq ToSet(left) \ ToSet(m)
      /\ \A i \in 1..n : i \in 1..Len(waiting)
  <2>1. /\ n \in 0..Len(left) /\ n \in Nat /\ Len(left) \in Nat /\ Len(waiting) \in Nat
        /\ \A i \in 1..n : i \in 1..Len(waiting)
    BY <1>2
  <2> HIDE DEF n
  <2>2. m \in Seq(Offer) /\ Len(m) = n /\ \A i \in 1..n : m[i] = left[i] /\ i \in 1..Len(left)
    BY <1>2, <2>1, FirstPart
  <2>3. /\ rest \in Seq(Offer) /\ Len(rest) = Len(left) - n
        /\ \A i \in 1..(Len(left) - n) : rest[i] = left[n + i] /\ n + i \in 1..Len(left)
    BY <1>2, <2>1, LastPart
  <2> HIDE DEF m, rest
  <2>4. /\ Distinct(m) /\ ToSet(m) \subseteq ToSet(left)
        /\ Distinct(rest) /\ ToSet(rest) \subseteq ToSet(left) \ ToSet(m)
    BY <1>2, <2>1, <2>2, <2>3, PairedOff
  <2> QED
    BY <2>1, <2>2, <2>3, <2>4
<1> HIDE DEF n, m, rest
<1>5. matched = {m[i] : i \in 1..n} /\ matched \subseteq Offer
  BY <1>4, SetOf
<1> HIDE DEF matched
<1>6. \A o \in matched : index[o] \in 1..n /\ m[index[o]] = o
  BY <1>5
<1>7. \A i \in 1..n : m[i] \in matched /\ index[m[i]] = i
  <2> TAKE i \in 1..n
  <2>1. m[i] \in matched
    BY <1>5
  <2>2. index[m[i]] \in 1..n /\ m[index[m[i]]] = m[i]
    BY <2>1, <1>6
  <2> HIDE DEF index
  <2> QED
    BY <2>1, <2>2, <1>4 DEF Distinct
<1>8. \A o \in matched : waiting[CHOOSE i \in 1..n : m[i] = o] = partner[o]
  OBVIOUS
<1> HIDE DEF index
<1>9. \A i \in 1..n : waiting[i] \in ToSet(requests) \ acceptInProgress
  BY <1>2, <1>4, SetOf
<1>10. partner \in [matched -> ToSet(requests) \ acceptInProgress]
  BY <1>6, <1>9
<1>11. \A o, p \in matched : partner[o] = partner[p] => o = p
  <2> TAKE o \in matched, p \in matched
  <2>1. index[o] \in 1..Len(waiting) /\ index[p] \in 1..Len(waiting)
    BY <1>4, <1>6
  <2>2. ASSUME partner[o] = partner[p]
        PROVE  index[o] = index[p]
    BY <2>1, <2>2, <1>2 DEF Distinct
  <2> QED
    BY <2>2, <1>6
<1>12. accepting' = [o \in Offer |-> IF o \in matched THEN partner[o] ELSE accepting[o]]
  <2> DEFINE wants(o) == waiting[CHOOSE i \in 1..n : m[i] = o]
  <2>1. accepting' = [o \in Offer |-> IF o \in matched THEN wants(o) ELSE accepting[o]]
    BY <1>3
  <2>2. \A o \in matched : wants(o) = partner[o]
    BY <1>8
  <2> HIDE DEF partner, wants
  <2> QED
    BY <2>1, <2>2
<1>13. acceptInProgress' = acceptInProgress \cup {partner[o] : o \in matched}
  <2>1. {waiting[i] : i \in 1..n} = {partner[o] : o \in matched}
    <3>1. \A i \in 1..n : waiting[i] = partner[m[i]] /\ m[i] \in matched
      BY <1>7
    <3>2. \A o \in matched : partner[o] = waiting[index[o]] /\ index[o] \in 1..n
      BY <1>6
    <3> HIDE DEF partner
    <3> QED
      BY <3>1, <3>2
  <2> QED
    BY <2>1, <1>3
<1>14. \A r \in Runner :
         /\ Accepts(r, m) \in Seq(BrokerMessage) /\ Ordered(Accepts(r, m), ToRunnerOrder)
         /\ \A o : /\ About(Accepts(r, m), o) =
                        (IF o \in matched \cap OffersOf(r) THEN {"taskofferaccept"} ELSE {})
                   /\ SettingsIn(Accepts(r, m), o) = {}
  BY <1>4, AcceptsDo DEF matched
<1>15. \A r \in Runner :
         /\ extra[r] \in Seq(BrokerMessage) /\ Ordered(extra[r], ToRunnerOrder)
         /\ \A o : /\ About(extra[r], o) \subseteq
                        (IF o \in matched \cap OffersOf(r) THEN {"taskofferaccept"} ELSE {})
                   /\ SettingsIn(extra[r], o) = {}
  <2> TAKE r \in Runner
  <2>1. CASE Hears(r)
    <3>1. extra[r] = Accepts(r, m)
      BY <2>1
    <3> HIDE DEF extra
    <3> QED
      BY <3>1, <1>14
  <2>2. CASE ~Hears(r)
    <3>1. extra[r] = <<>>
      BY <2>2
    <3> HIDE DEF extra
    <3> QED
      BY <3>1, QueueEmpty
  <2> QED
    BY <2>1, <2>2
<1>16. extra \in [Runner -> Seq(BrokerMessage)]
  <2>1. extra = [r \in Runner |-> extra[r]]
    OBVIOUS
  <2> HIDE DEF extra
  <2> QED
    BY <2>1, <1>15
<1>17. \A r \in Runner : extra[r] # <<>> => Hears(r)
  OBVIOUS
<1>18. toRunner' = Joined(toRunner, extra)
  <2>1. ASSUME NEW r \in Runner
        PROVE  (IF Hears(r) THEN toRunner[r] \o Accepts(r, m) ELSE toRunner[r]) = toRunner[r] \o extra[r]
    <3>1. toRunner[r] \in Seq(BrokerMessage)
      BY DEF QueuesOrdered, InGoodOrder
    <3>2. toRunner[r] \o <<>> = toRunner[r]
      BY <3>1
    <3> QED
      BY <3>2
  <2> HIDE DEF extra
  <2> QED
    BY <2>1, <1>3 DEF Joined
<1> HIDE DEF extra, partner
<1>19. InGoodOrder(extra, BrokerMessage, ToRunnerOrder)
  BY <1>15, <1>16 DEF InGoodOrder
<1>20. \A o \in Offer : /\ At(extra, o) \subseteq (IF o \in matched THEN {"taskofferaccept"} ELSE {})
                        /\ SettingsAt(extra, o) = {}
  BY <1>15, OfferOf DEF At, SettingsAt
<1>21. matched \subseteq ToSet(offers) /\ ToSet(rest) \subseteq ToSet(offers) \ matched
  BY <1>2, <1>4 DEF matched
<1>22. Matching(matched, partner, extra, offers, requests)
  BY <1>3, <1>4, <1>10, <1>11, <1>12, <1>13, <1>17, <1>18, <1>19, <1>20, <1>21 DEF Matching
<1> QED
  BY <1>22

(* Settings on their way are a message on its way.                         *)
LEMMA SettingsShow ==
  ASSUME NEW queues, NEW o, SettingsAt(queues, o) # {}
  PROVE  "tasksettings" \in At(queues, o)
BY AboutIs DEF At, SettingsAt

(* An offer nobody has taken, with no message about it.                    *)
Free(o) == AtRunner(o) = {} /\ tasks[o] = None /\ accepting[o] = None /\ status[o] = "none"

(* What matching sends to the runners                                      *)
LEMMA MatchingRunners ==
  ASSUME QueuesOrdered, Connected, NEW offers, NEW requests, \A o \in ToSet(offers) : Free(o),
         NEW matched, NEW partner, NEW extra, Matching(matched, partner, extra, offers, requests)
  PROVE  /\ InGoodOrder(toRunner', BrokerMessage, ToRunnerOrder)
         /\ \A r \in Runner : toRunner'[r] # <<>> => process[r] = "connected"
         /\ \A o \in Offer :
              /\ o \in matched => AtRunner(o)' \subseteq {"taskofferaccept"} /\ SettingsOf(o)' = {}
              /\ o \notin matched => AtRunner(o)' = AtRunner(o) /\ SettingsOf(o)' = SettingsOf(o)
<1>1. /\ InGoodOrder(toRunner, BrokerMessage, ToRunnerOrder)
      /\ InGoodOrder(extra, BrokerMessage, ToRunnerOrder)
      /\ toRunner' = Joined(toRunner, extra)
  BY DEF QueuesOrdered, Matching
<1>2. \A o \in Offer : /\ At(extra, o) \subseteq (IF o \in matched THEN {"taskofferaccept"} ELSE {})
                       /\ SettingsAt(extra, o) = {}
  BY DEF Matching
<1>3. \A o \in matched : At(toRunner, o) = {}
  BY DEF Matching, Free, AtRunner
<1>4. MayFollow(extra, toRunner, ToRunnerOrder)
  BY <1>2, <1>3 DEF MayFollow
<1>5. /\ InGoodOrder(toRunner', BrokerMessage, ToRunnerOrder)
      /\ \A o \in Offer : /\ At(toRunner', o) = At(toRunner, o) \cup At(extra, o)
                          /\ SettingsAt(toRunner', o) = SettingsAt(toRunner, o) \cup SettingsAt(extra, o)
  BY <1>1, <1>4, QueuesGrow
<1>6. ASSUME NEW r \in Runner, toRunner'[r] # <<>>
      PROVE  process[r] = "connected"
  <2>1. CASE extra[r] # <<>>
    BY <2>1 DEF Matching, Hears
  <2>2. CASE extra[r] = <<>>
    <3>1. toRunner[r] \in Seq(BrokerMessage)
      BY <1>1 DEF InGoodOrder
    <3>2. toRunner'[r] = toRunner[r] \o <<>>
      BY <1>1, <2>2 DEF Joined
    <3>3. toRunner'[r] = toRunner[r]
      BY <3>1, <3>2
    <3> QED
      BY <3>3, <1>6 DEF Connected
  <2> QED
    BY <2>1, <2>2
<1>7. ASSUME NEW o \in Offer
      PROVE  /\ o \in matched => AtRunner(o)' \subseteq {"taskofferaccept"} /\ SettingsOf(o)' = {}
             /\ o \notin matched => AtRunner(o)' = AtRunner(o) /\ SettingsOf(o)' = SettingsOf(o)
  <2>1. o \in matched => SettingsAt(toRunner, o) = {}
    BY <1>3, SettingsShow
  <2>2. /\ At(toRunner', o) = At(toRunner, o) \cup At(extra, o)
        /\ SettingsAt(toRunner', o) = SettingsAt(toRunner, o)
        /\ At(extra, o) \subseteq (IF o \in matched THEN {"taskofferaccept"} ELSE {})
    BY <1>2, <1>5
  <2>3. CASE o \in matched
    BY <2>1, <2>2, <2>3, <1>3 DEF AtRunner, SettingsOf
  <2>4. CASE o \notin matched
    BY <2>2, <2>4 DEF AtRunner, SettingsOf
  <2> QED
    BY <2>3, <2>4
<1> QED
  BY <1>5, <1>6, <1>7

(* Matching keeps the phase of every offer.                                *)
LEMMA MatchingPhases ==
  ASSUME Phases, QueuesOrdered, Connected, NEW offers, NEW requests, \A o \in ToSet(offers) : Free(o),
         NEW matched, NEW partner, NEW extra, Matching(matched, partner, extra, offers, requests),
         NEW o \in Offer, AtBroker(o)' \subseteq AtBroker(o), o \in ToSet(offers) => AtBroker(o)' = {},
         UNCHANGED <<process, status, executes, tasks, taskTimer>>
  PROVE  Phase(o)'
<1>1. /\ o \in matched => AtRunner(o)' \subseteq {"taskofferaccept"} /\ SettingsOf(o)' = {}
      /\ o \notin matched => AtRunner(o)' = AtRunner(o) /\ SettingsOf(o)' = SettingsOf(o)
  BY MatchingRunners
<1>2. /\ o \in matched => o \in ToSet(offers) /\ o \notin ToSet(pendingTaskOffers')
      /\ o \notin matched => accepting'[o] = accepting[o]
      /\ o \in ToSet(pendingTaskOffers') => o \in ToSet(offers)
  BY DEF Matching
<1>3. Phase(o)
  BY DEF Phases
<1>4. CASE o \in matched
  <2>1. AtBroker(o)' = {} /\ tasks'[o] = None /\ status'[o] = "none"
    BY <1>2, <1>4 DEF Free
  <2>2. AtRunner(o)' \subseteq {"taskofferaccept"} /\ SettingsOf(o)' = {} /\ o \notin ToSet(pendingTaskOffers')
    BY <1>1, <1>2, <1>4
  <2>3. o \in taskTimer' => tasks'[o] # None
    BY <1>3 DEF Phase, TimerHasTask
  <2> QED
    BY <2>1, <2>2, <2>3 DEF Phase, OfferIsFree, AcceptanceIsAlone, EndIsLast, SettingsAreCurrent,
                            ExecutionIsCurrent, TimerHasTask
<1>5. CASE o \notin matched
  <2>1. CASE o \in ToSet(pendingTaskOffers')
    <3>1. AtBroker(o)' = {} /\ tasks'[o] = None /\ status'[o] = "none" /\ accepting'[o] = None
          /\ AtRunner(o)' = {} /\ SettingsOf(o)' = {}
      BY <2>1, <1>1, <1>2, <1>5, SettingsShow DEF Free, AtRunner, SettingsOf
    <3>2. o \in taskTimer' => tasks'[o] # None
      BY <1>3 DEF Phase, TimerHasTask
    <3> QED
      BY <3>1, <3>2 DEF Phase, OfferIsFree, AcceptanceIsAlone, EndIsLast, SettingsAreCurrent,
                              ExecutionIsCurrent, TimerHasTask
  <2>2. CASE o \notin ToSet(pendingTaskOffers')
    BY <2>2, <1>1, <1>2, <1>3, <1>5, PhaseKept
  <2> QED
    BY <2>1, <2>2
<1> QED
  BY <1>4, <1>5

(* Matching keeps what holds of the requests that are being accepted.      *)
LEMMA MatchingAccepts ==
  ASSUME TypeOK, AcceptingFlagged, OneAcceptance,
         NEW offers \in Seq(Offer), \A o \in ToSet(offers) : Free(o),
         NEW requests \in Seq(Request),
         \A q \in ToSet(requests) : q \in acceptInProgress => q \in ToSet(pendingTaskRequests),
         NEW matched, NEW partner, NEW extra, Matching(matched, partner, extra, offers, requests)
  PROVE  /\ OneAcceptance'
         /\ \A o \in Offer : accepting'[o] # None => accepting'[o] \in acceptInProgress'
         /\ acceptInProgress' \subseteq acceptInProgress \cup ToSet(requests)
         /\ acceptInProgress' \in SUBSET Request /\ accepting' \in [Offer -> Request \cup {None}]
<1>1. /\ accepting' = [o \in Offer |-> IF o \in matched THEN partner[o] ELSE accepting[o]]
      /\ acceptInProgress' = acceptInProgress \cup {partner[o] : o \in matched}
      /\ partner \in [matched -> ToSet(requests) \ acceptInProgress]
      /\ \A o, p \in matched : partner[o] = partner[p] => o = p
      /\ matched \subseteq ToSet(offers) /\ pendingTaskRequests' = requests
  BY DEF Matching
<1>2. ToSet(requests) \subseteq Request /\ ToSet(offers) \subseteq Offer
  BY SetOf
<1>3. \A o \in Offer : accepting[o] # None => accepting[o] \in acceptInProgress
  BY DEF AcceptingFlagged
<1>4. acceptInProgress \in SUBSET Request /\ accepting \in [Offer -> Request \cup {None}]
  BY DEF TypeOK
<1>5. \A o \in matched : partner[o] \in ToSet(requests) /\ partner[o] \notin acceptInProgress
  BY <1>1
<1>6. ASSUME NEW o \in Offer, NEW p \in Offer, accepting'[o] = accepting'[p], accepting'[o] # None
      PROVE  o = p
  <2>1. CASE o \in matched /\ p \in matched
    BY <2>1, <1>1, <1>6
  <2>2. CASE o \notin matched /\ p \notin matched
    BY <2>2, <1>1, <1>6 DEF OneAcceptance
  <2>3. CASE o \in matched /\ p \notin matched
    BY <2>3, <1>1, <1>3, <1>5, <1>6
  <2>4. CASE o \notin matched /\ p \in matched
    BY <2>4, <1>1, <1>3, <1>5, <1>6
  <2> QED
    BY <2>1, <2>2, <2>3, <2>4
<1>7. ASSUME NEW q \in ToSet(requests), q \in acceptInProgress'
      PROVE  \E o \in Offer : accepting'[o] = q
  <2>1. CASE q \in acceptInProgress
    <3>1. PICK o \in Offer : accepting[o] = q
      BY <2>1, <1>7 DEF OneAcceptance
    <3>2. q # None
      BY <1>2, RunnerAssumption DEF RunnerAssumption
    <3>3. o \notin matched
      BY <3>1, <3>2, <1>1 DEF Free
    <3> QED
      BY <3>1, <3>3, <1>1
  <2>2. CASE q \notin acceptInProgress
    <3>1. PICK o \in matched : q = partner[o]
      BY <2>2, <1>1, <1>7
    <3> QED
      BY <3>1, <1>1, <1>2
  <2> QED
    BY <2>1, <2>2
<1>8. OneAcceptance'
  BY <1>1, <1>6, <1>7 DEF OneAcceptance
<1>9. \A o \in Offer : accepting'[o] # None => accepting'[o] \in acceptInProgress'
  BY <1>1, <1>3
<1>10. acceptInProgress' \subseteq acceptInProgress \cup ToSet(requests)
  BY <1>1, <1>5
<1>11. acceptInProgress' \in SUBSET Request /\ accepting' \in [Offer -> Request \cup {None}]
  BY <1>1, <1>2, <1>4, <1>5, <1>10
<1> QED
  BY <1>8, <1>9, <1>10, <1>11


(* What is on its way to a runner, and what the phase of an offer that is  *)
(* over asks for.                                                          *)
LEMMA AtRunnerTypes ==
  ASSUME QueuesOrdered, NEW o \in Offer
  PROVE  AtRunner(o) \subseteq {"taskofferaccept", "tasksettings", "taskcancel"}
<1> SUFFICES ASSUME NEW x \in AtRunner(o)
             PROVE  x \in {"taskofferaccept", "tasksettings", "taskcancel"}
  OBVIOUS
<1>1. toRunner[o[1]] \in Seq(BrokerMessage)
  BY OfferOf DEF QueuesOrdered, InGoodOrder
<1> DEFINE s == toRunner[o[1]]
<1>2. PICK i \in 1..Len(s) : Concerns(s[i], o) /\ s[i].type = x
  BY AboutIs DEF AtRunner, At
<1>3. s[i] \in BrokerMessage
  BY <1>1
<1> QED
  BY <1>2, <1>3 DEF Concerns, BrokerMessage

(* The broker takes the oldest message of runner r.                        *)
LEMMA BrokerTakes ==
  ASSUME QueuesOrdered, NEW r \in Runner, NEW type, type # "runnerregistered", BrokerReceives(r, type),
         NEW o, o = Head(toBroker[r]).offer
  PROVE  /\ o \in Offer /\ o[1] = r /\ type \in AtBroker(o)
         /\ InGoodOrder(toBroker', RunnerMessage, ToBrokerOrder)
         /\ AtBroker(o)' \subseteq (IF type = "taskaccepted" THEN {"taskerror"} ELSE {})
         /\ \A p \in Offer : AtBroker(p)' \subseteq AtBroker(p)
<1>1. /\ toBroker[r] # <<>> /\ Head(toBroker[r]).type = type
      /\ toBroker' = [toBroker EXCEPT ![r] = Tail(@)]
      /\ InGoodOrder(toBroker, RunnerMessage, ToBrokerOrder)
  BY DEF BrokerReceives, QueuesOrdered
<1>2. TakenFrom(toBroker, r, toBroker', RunnerMessage, ToBrokerOrder)
  BY <1>1, QueuesTake
<1>3. \A x : <<type, x>> \in ToBrokerOrder => type = "taskaccepted" /\ x = "taskerror"
  BY DEF ToBrokerOrder
<1> QED
  BY <1>1, <1>2, <1>3 DEF AtBroker, TakenFrom

(* The broker sends runner r a message, if it can.                         *)
LEMMA MessageDoes ==
  ASSUME QueuesOrdered, Connected, NEW o \in Offer, NEW r, r = o[1], NEW m \in BrokerMessage,
         m.type \in {"taskcancel", "tasksettings"}, m.offer = o,
         \A x \in AtRunner(o) : <<x, m.type>> \in ToRunnerOrder, MessageRunner(r, m)
  PROVE  /\ InGoodOrder(toRunner', BrokerMessage, ToRunnerOrder)
         /\ \A s \in Runner : toRunner'[s] # <<>> => process[s] = "connected"
         /\ \A p \in Offer : p # o => AtRunner(p)' = AtRunner(p) /\ SettingsOf(p)' = SettingsOf(p)
         /\ AtRunner(o)' = AtRunner(o) \cup (IF Hears(r) THEN {m.type} ELSE {})
         /\ SettingsOf(o)' \subseteq
              SettingsOf(o) \cup (IF m.type = "tasksettings" THEN {m.request} ELSE {})
<1>1. InGoodOrder(toRunner, BrokerMessage, ToRunnerOrder) /\ r \in Runner /\ o \in OffersOf(r)
      /\ \A s \in Runner : toRunner[s] # <<>> => process[s] = "connected"
  BY OfferOf DEF QueuesOrdered, Connected
<1>2. CASE ~Hears(r)
  <2>1. toRunner' = toRunner
    BY <1>2 DEF MessageRunner
  <2> QED
    BY <2>1, <1>1, <1>2 DEF AtRunner, SettingsOf
<1>3. CASE Hears(r)
  <2> DEFINE extra == [s \in Runner |-> IF s = r THEN <<m>> ELSE <<>>]
  <2>1. toRunner' = [toRunner EXCEPT ![r] = Append(@, m)] /\ process[r] = "connected"
    BY <1>3 DEF MessageRunner, Hears
  <2>2. \A p : Concerns(m, p) <=> p = o
    BY DEF Concerns
  <2>3. /\ extra[r] = <<m>> /\ \A s \in Runner : s # r => extra[s] = <<>>
        /\ extra \in [Runner -> Seq(BrokerMessage)]
    BY <1>1
  <2> HIDE DEF extra
  <2>4. InGoodOrder(extra, BrokerMessage, ToRunnerOrder)
    <3>1. ASSUME NEW s \in Runner
          PROVE  Ordered(extra[s], ToRunnerOrder) /\ \A p : About(extra[s], p) # {} => p \in OffersOf(s)
      <4>1. CASE s = r
        BY <4>1, <2>2, <2>3, <1>1, QueueOne
      <4>2. CASE s # r
        BY <4>2, <2>3, QueueEmpty
      <4> QED
        BY <4>1, <4>2
    <3> QED
      BY <3>1, <2>3 DEF InGoodOrder
  <2>5. ASSUME NEW p \in Offer
        PROVE  /\ At(extra, p) = (IF p = o THEN {m.type} ELSE {})
               /\ SettingsAt(extra, p) = (IF p = o /\ m.type = "tasksettings" THEN {m.request} ELSE {})
    <3>1. CASE p[1] = r
      BY <3>1, <2>2, <2>3, QueueOne DEF At, SettingsAt
    <3>2. CASE p[1] # r
      BY <3>2, <2>3, OfferOf, QueueEmpty DEF At, SettingsAt
    <3> QED
      BY <3>1, <3>2
  <2>6. MayFollow(extra, toRunner, ToRunnerOrder)
    BY <2>5 DEF MayFollow, AtRunner
  <2>7. toRunner' = Joined(toRunner, extra)
    <3>1. toRunner \in [Runner -> Seq(BrokerMessage)]
      BY <1>1 DEF InGoodOrder
    <3>2. ASSUME NEW s \in Runner
          PROVE  toRunner'[s] = toRunner[s] \o extra[s]
      <4>1. toRunner[s] \in Seq(BrokerMessage)
        BY <3>1
      <4>2. toRunner[s] \o <<>> = toRunner[s] /\ Append(toRunner[s], m) = toRunner[s] \o <<m>>
        BY <4>1
      <4> QED
        BY <4>2, <3>1, <2>1, <2>3, <1>1
    <3>3. toRunner' = [s \in Runner |-> toRunner'[s]]
      BY <3>1, <2>1
    <3> QED
      BY <3>2, <3>3 DEF Joined
  <2>8. /\ InGoodOrder(toRunner', BrokerMessage, ToRunnerOrder)
        /\ \A p \in Offer : /\ At(toRunner', p) = At(toRunner, p) \cup At(extra, p)
                            /\ SettingsAt(toRunner', p) = SettingsAt(toRunner, p) \cup SettingsAt(extra, p)
    BY <1>1, <2>4, <2>6, <2>7, QueuesGrow
  <2>9. \A s \in Runner : toRunner'[s] # <<>> => process[s] = "connected"
    BY <1>1, <2>1 DEF QueuesOrdered, InGoodOrder
  <2> QED
    BY <2>5, <2>8, <2>9, <1>3 DEF AtRunner, SettingsOf
<1> QED
  BY <1>2, <1>3

-----------------------------------------------------------------------------
(* The steps of the broker                                                 *)

(* Initially nothing is on its way.                                        *)
LEMMA InitHolds == Init => Inv
<1> SUFFICES ASSUME Init PROVE Inv
  OBVIOUS
<1>1. TypeOK
  BY DEF Init, RunnerInit, TypeOK, RunnerTypeOK, Settled, TaskStatus
<1>2. QueuesOrdered
  <2>1. toBroker \in [Runner -> Seq(RunnerMessage)] /\ toRunner \in [Runner -> Seq(BrokerMessage)]
    BY <1>1 DEF TypeOK, RunnerTypeOK
  <2> QED
    BY <2>1, QueueEmpty DEF Init, RunnerInit, QueuesOrdered, InGoodOrder
<1>3. Connected
  BY DEF Init, RunnerInit, Connected, OffersOf
<1>4. ASSUME NEW o \in Offer
      PROVE  Phase(o)
  <2>1. AtBroker(o) = {} /\ AtRunner(o) = {} /\ SettingsOf(o) = {}
    BY OfferOf, QueueEmpty DEF Init, RunnerInit, AtBroker, AtRunner, SettingsOf, At, SettingsAt
  <2>2. ToSet(pendingTaskOffers) = {}
    BY DEF Init, ToSet
  <2> QED
    BY <2>1, <2>2 DEF Init, RunnerInit, Phase, OfferIsFree, AcceptanceIsAlone, EndIsLast,
                      SettingsAreCurrent, ExecutionIsCurrent, TimerHasTask
<1>5. Lists
  BY DEF Init, Lists, Distinct
<1>6. ToSet(pendingTaskRequests) = {}
  BY DEF Init, ToSet
<1> QED
  BY <1>1, <1>2, <1>3, <1>4, <1>5, <1>6
     DEF Init, Inv, Phases, AcceptingFlagged, RunningHasTask, PendingIsRequested, OneAcceptance,
         RunningIsWatched

(* startTask of a requester                                                *)
LEMMA StartTaskKeeps ==
  ASSUME Inv, NEW q \in Request, StartTask(q)
  PROVE  Inv'
<1> DEFINE requests == Append(pendingTaskRequests, q)
<1>1. /\ outcome[q] = "idle" /\ outcome' = [outcome EXCEPT ![q] = "requested"]
      /\ requestTimer' = requestTimer \cup {q} /\ SettleTasks(pendingTaskOffers, requests)
      /\ UNCHANGED <<process, canSendOffers, openOffers, status, executes, toBroker,
                     knownRunners, tasks, taskTimer, taskOf>>
  BY DEF StartTask
<1>2. /\ TypeOK /\ QueuesOrdered /\ Connected /\ Phases /\ Lists /\ AcceptingFlagged
      /\ PendingIsRequested /\ OneAcceptance /\ RunningHasTask /\ RunningIsWatched
  BY DEF Inv
<1>3. pendingTaskOffers \in Seq(Offer) /\ pendingTaskRequests \in Seq(Request) /\ Distinct(pendingTaskOffers)
  BY <1>2 DEF TypeOK, Lists
<1>4. requests \in Seq(Request) /\ Distinct(requests) /\ ToSet(requests) = ToSet(pendingTaskRequests) \cup {q}
  <2>1. q \notin ToSet(pendingTaskRequests) /\ Distinct(pendingTaskRequests)
    BY <1>1, <1>2 DEF PendingIsRequested, Lists
  <2> QED
    BY <2>1, <1>3, AppendDistinct
<1> HIDE DEF requests
<1>5. PICK matched, partner, extra : Matching(matched, partner, extra, pendingTaskOffers, requests)
  BY <1>1, <1>2, <1>3, <1>4, SettleDoes
<1>6. \A o \in ToSet(pendingTaskOffers) : Free(o) /\ AtBroker(o) = {}
  <2>1. ToSet(pendingTaskOffers) \subseteq Offer
    BY <1>3, SetOf
  <2> QED
    BY <2>1, <1>2 DEF Phases, Phase, OfferIsFree, Free
<1>7. /\ InGoodOrder(toRunner', BrokerMessage, ToRunnerOrder)
      /\ \A r \in Runner : toRunner'[r] # <<>> => process[r] = "connected"
  BY <1>2, <1>5, <1>6, MatchingRunners
<1>8. Phases'
  <2>1. ASSUME NEW o \in Offer
        PROVE  Phase(o)'
    <3>1. AtBroker(o)' = AtBroker(o)
      BY <1>1 DEF AtBroker
    <3> QED
      BY <3>1, <1>1, <1>2, <1>5, <1>6, MatchingPhases
  <2> QED
    BY <2>1 DEF Phases
<1>9. \A p \in ToSet(requests) : p \in acceptInProgress => p \in ToSet(pendingTaskRequests)
  BY <1>1, <1>2, <1>4 DEF AcceptingFlagged
<1>10. /\ OneAcceptance'
       /\ \A o \in Offer : accepting'[o] # None => accepting'[o] \in acceptInProgress'
       /\ acceptInProgress' \subseteq acceptInProgress \cup ToSet(requests)
       /\ acceptInProgress' \in SUBSET Request /\ accepting' \in [Offer -> Request \cup {None}]
  BY <1>2, <1>3, <1>4, <1>5, <1>6, <1>9, MatchingAccepts
<1>11. /\ pendingTaskOffers' \in Seq(Offer) /\ Distinct(pendingTaskOffers') /\ pendingTaskRequests' = requests
  BY <1>5 DEF Matching
<1>12. TypeOK'
  BY <1>1, <1>2, <1>4, <1>7, <1>10, <1>11 DEF TypeOK, RunnerTypeOK, InGoodOrder
<1>13. /\ outcome \in [Request -> {"idle", "requested", "running"} \cup Settled]
       /\ outcome'[q] = "requested" /\ \A p \in Request : p # q => outcome'[p] = outcome[p]
  BY <1>1, <1>2 DEF TypeOK
<1>14. PendingIsRequested'
  BY <1>2, <1>4, <1>11, <1>13 DEF PendingIsRequested
<1>15. AcceptingFlagged'
  <2>1. \A p \in Request : outcome'[p] # "idle" \/ p \notin acceptInProgress'
    BY <1>2, <1>4, <1>10, <1>13 DEF AcceptingFlagged, PendingIsRequested
  <2> QED
    BY <2>1, <1>10 DEF AcceptingFlagged
<1>16. RunningHasTask' /\ RunningIsWatched'
  BY <1>1, <1>2, <1>13 DEF RunningHasTask, RunningIsWatched
<1>17. QueuesOrdered' /\ Connected'
  BY <1>1, <1>2, <1>7 DEF QueuesOrdered, Connected
<1> QED
  BY <1>4, <1>8, <1>10, <1>11, <1>12, <1>14, <1>15, <1>16, <1>17 DEF Inv, Lists

(* A new offer arrives at the broker.                                      *)
LEMMA TaskOfferedKeeps ==
  ASSUME Inv, NEW r \in Runner, TaskOffered(r)
  PROVE  Inv'
<1>1. PICK o : o = Head(toBroker[r]).offer
  OBVIOUS
<1> DEFINE offers == Append(pendingTaskOffers, o)
<1>2. /\ BrokerReceives(r, "taskoffer") /\ SettleTasks(offers, pendingTaskRequests)
      /\ UNCHANGED <<process, canSendOffers, openOffers, status, executes,
                     knownRunners, requestTimer, tasks, taskTimer, outcome, taskOf>>
  BY <1>1 DEF TaskOffered, requesterVars
<1>3. /\ TypeOK /\ QueuesOrdered /\ Connected /\ Phases /\ Lists /\ AcceptingFlagged
      /\ PendingIsRequested /\ OneAcceptance /\ RunningHasTask /\ RunningIsWatched
  BY DEF Inv
<1>4. /\ o \in Offer /\ "taskoffer" \in AtBroker(o) /\ InGoodOrder(toBroker', RunnerMessage, ToBrokerOrder)
      /\ AtBroker(o)' = {} /\ \A p \in Offer : AtBroker(p)' \subseteq AtBroker(p)
  BY <1>1, <1>2, <1>3, BrokerTakes
<1>5. /\ pendingTaskOffers \in Seq(Offer) /\ pendingTaskRequests \in Seq(Request)
      /\ Distinct(pendingTaskOffers) /\ Distinct(pendingTaskRequests)
  BY <1>3 DEF TypeOK, Lists
<1>6. offers \in Seq(Offer) /\ Distinct(offers) /\ ToSet(offers) = ToSet(pendingTaskOffers) \cup {o}
  <2>1. o \notin ToSet(pendingTaskOffers)
    BY <1>3, <1>4 DEF Phases, Phase, OfferIsFree
  <2> QED
    BY <2>1, <1>4, <1>5, AppendDistinct
<1> HIDE DEF offers
<1>7. PICK matched, partner, extra : Matching(matched, partner, extra, offers, pendingTaskRequests)
  BY <1>2, <1>3, <1>5, <1>6, SettleDoes
<1>8. \A p \in ToSet(offers) : Free(p) /\ AtBroker(p)' = {}
  <2>1. ToSet(pendingTaskOffers) \subseteq Offer
    BY <1>5, SetOf
  <2>2. Free(o) /\ \A p \in ToSet(pendingTaskOffers) : Free(p) /\ AtBroker(p) = {}
    BY <2>1, <1>3, <1>4 DEF Phases, Phase, OfferIsFree, Free
  <2> QED
    BY <2>1, <2>2, <1>4, <1>6
<1>9. /\ InGoodOrder(toRunner', BrokerMessage, ToRunnerOrder)
      /\ \A s \in Runner : toRunner'[s] # <<>> => process[s] = "connected"
  BY <1>3, <1>7, <1>8, MatchingRunners
<1>10. Phases'
  <2>1. ASSUME NEW p \in Offer
        PROVE  Phase(p)'
    BY <1>2, <1>3, <1>4, <1>7, <1>8, MatchingPhases
  <2> QED
    BY <2>1 DEF Phases
<1>11. /\ OneAcceptance'
       /\ \A p \in Offer : accepting'[p] # None => accepting'[p] \in acceptInProgress'
       /\ acceptInProgress' \subseteq acceptInProgress \cup ToSet(pendingTaskRequests)
       /\ acceptInProgress' \in SUBSET Request /\ accepting' \in [Offer -> Request \cup {None}]
  BY <1>3, <1>5, <1>6, <1>7, <1>8, MatchingAccepts
<1>12. /\ pendingTaskOffers' \in Seq(Offer) /\ Distinct(pendingTaskOffers')
       /\ pendingTaskRequests' = pendingTaskRequests
  BY <1>7 DEF Matching
<1>13. TypeOK'
  BY <1>2, <1>3, <1>4, <1>9, <1>11, <1>12 DEF TypeOK, RunnerTypeOK, InGoodOrder
<1>14. AcceptingFlagged'
  <2>1. \A p \in acceptInProgress' : outcome[p] # "idle"
    BY <1>3, <1>11 DEF AcceptingFlagged, PendingIsRequested
  <2> QED
    BY <2>1, <1>2, <1>11 DEF AcceptingFlagged
<1>15. QueuesOrdered' /\ Connected'
  BY <1>2, <1>3, <1>4, <1>9 DEF QueuesOrdered, Connected
<1>16. PendingIsRequested' /\ RunningHasTask' /\ RunningIsWatched'
  BY <1>2, <1>3, <1>12 DEF PendingIsRequested, RunningHasTask, RunningIsWatched
<1> QED
  BY <1>3, <1>10, <1>11, <1>12, <1>13, <1>14, <1>15, <1>16 DEF Inv, Lists


(* The list of requests when one of them leaves it.                        *)
LEMMA RequestLeaves ==
  ASSUME NEW list \in Seq(Request), Distinct(list), NEW q
  PROVE  /\ Keep(list, Request \ {q}) \in Seq(Request) /\ Distinct(Keep(list, Request \ {q}))
         /\ ToSet(Keep(list, Request \ {q})) = ToSet(list) \ {q}
<1>1. ToSet(list) \subseteq Request
  BY SetOf
<1>2. ToSet(Keep(list, Request \ {q})) = ToSet(list) \cap (Request \ {q})
      /\ Keep(list, Request \ {q}) \in Seq(Request)
  BY KeepKeeps
<1>3. Distinct(Keep(list, Request \ {q}))
  BY KeepDistinct
<1> QED
  BY <1>1, <1>2, <1>3

(* A request expires.                                                      *)
LEMMA HandleRequestTimeoutKeeps ==
  ASSUME Inv, NEW q \in Request, HandleRequestTimeout(q)
  PROVE  Inv'
<1>1. /\ requestTimer' = requestTimer \ {q} /\ outcome' = [outcome EXCEPT ![q] = "expired"]
      /\ pendingTaskRequests' = Keep(pendingTaskRequests, Request \ {q})
      /\ UNCHANGED <<runnerVars, knownRunners, pendingTaskOffers, acceptInProgress, accepting,
                     tasks, taskTimer, taskOf>>
  BY DEF HandleRequestTimeout
<1>2. UNCHANGED <<process, canSendOffers, openOffers, status, executes, toRunner, toBroker>>
  BY <1>1 DEF runnerVars
<1>3. /\ TypeOK /\ QueuesOrdered /\ Connected /\ Phases /\ Lists /\ AcceptingFlagged
      /\ PendingIsRequested /\ OneAcceptance /\ RunningHasTask /\ RunningIsWatched
  BY DEF Inv
<1>4. /\ pendingTaskRequests' \in Seq(Request) /\ Distinct(pendingTaskRequests')
      /\ ToSet(pendingTaskRequests') = ToSet(pendingTaskRequests) \ {q}
  BY <1>1, <1>3, RequestLeaves DEF TypeOK, Lists
<1>5. /\ outcome \in [Request -> {"idle", "requested", "running"} \cup Settled]
      /\ outcome'[q] = "expired" /\ \A p \in Request : p # q => outcome'[p] = outcome[p]
      /\ outcome' \in [Request -> {"idle", "requested", "running"} \cup Settled]
  BY <1>1, <1>3 DEF TypeOK, Settled
<1>6. TypeOK'
  BY <1>1, <1>2, <1>3, <1>4, <1>5 DEF TypeOK, RunnerTypeOK
<1>7. QueuesOrdered' /\ Connected'
  BY <1>1, <1>2, <1>3 DEF QueuesOrdered, Connected
<1>8. Phases'
  BY <1>1, <1>2, <1>3 DEF Phases, Phase, OfferIsFree, AcceptanceIsAlone, EndIsLast, SettingsAreCurrent,
                          ExecutionIsCurrent, TimerHasTask, AtBroker, AtRunner, SettingsOf
<1>9. PendingIsRequested' /\ RunningHasTask' /\ RunningIsWatched'
  BY <1>1, <1>3, <1>4, <1>5 DEF PendingIsRequested, RunningHasTask, RunningIsWatched
<1>10. AcceptingFlagged' /\ OneAcceptance'
  <2>1. acceptInProgress \subseteq Request
    BY <1>3 DEF TypeOK
  <2> QED
    BY <2>1, <1>1, <1>3, <1>4, <1>5 DEF AcceptingFlagged, OneAcceptance
<1> QED
  BY <1>1, <1>3, <1>4, <1>6, <1>7, <1>8, <1>9, <1>10 DEF Inv, Lists

(* An acceptance that fails is over, for its offer and its request.        *)
LEMMA AcceptFailsDo ==
  ASSUME TypeOK, AcceptingFlagged, OneAcceptance, NEW o \in Offer, AcceptFails(o),
         UNCHANGED <<outcome, pendingTaskRequests>>
  PROVE  /\ AcceptingFlagged' /\ OneAcceptance'
         /\ accepting' \in [Offer -> Request \cup {None}] /\ acceptInProgress' \in SUBSET Request
         /\ \A p \in Offer : accepting'[p] \in {accepting[p], None}
<1>1. /\ accepting' = [accepting EXCEPT ![o] = None]
      /\ acceptInProgress' = acceptInProgress \ {accepting[o]}
      /\ accepting \in [Offer -> Request \cup {None}] /\ acceptInProgress \in SUBSET Request
      /\ pendingTaskRequests \in Seq(Request)
  BY DEF AcceptFails, TypeOK
<1>2. /\ accepting'[o] = None /\ \A p \in Offer : p # o => accepting'[p] = accepting[p]
      /\ accepting' \in [Offer -> Request \cup {None}]
  BY <1>1
<1>3. OneAcceptance'
  <2>1. \A p, q \in Offer : accepting'[p] = accepting'[q] /\ accepting'[p] # None => p = q
    BY <1>2 DEF OneAcceptance
  <2>2. ASSUME NEW q \in ToSet(pendingTaskRequests), q \in acceptInProgress'
        PROVE  \E p \in Offer : accepting'[p] = q
    <3>1. PICK p \in Offer : accepting[p] = q
      BY <2>2, <1>1 DEF OneAcceptance
    <3> QED
      BY <3>1, <2>2, <1>1, <1>2
  <2> QED
    BY <2>1, <2>2 DEF OneAcceptance
<1>4. AcceptingFlagged'
  <2>1. \A p \in Offer : accepting'[p] # None => accepting'[p] \in acceptInProgress'
    BY <1>1, <1>2 DEF AcceptingFlagged, OneAcceptance
  <2>2. \A q \in acceptInProgress' : outcome'[q] # "idle"
    BY <1>1 DEF AcceptingFlagged
  <2> QED
    BY <2>1, <2>2 DEF AcceptingFlagged
<1> QED
  BY <1>1, <1>2, <1>3, <1>4

(* The runner's answer does not come in time.                              *)
LEMMA AcceptTimeoutKeeps ==
  ASSUME Inv, NEW o \in Offer, AcceptTimeout(o)
  PROVE  Inv'
<1>1. /\ AcceptFails(o)
      /\ UNCHANGED <<process, canSendOffers, openOffers, status, executes, toRunner, toBroker>>
      /\ UNCHANGED <<knownRunners, pendingTaskOffers, pendingTaskRequests,
                     requestTimer, tasks, taskTimer, outcome, taskOf>>
  BY DEF AcceptTimeout, runnerVars, requesterVars
<1>2. /\ TypeOK /\ QueuesOrdered /\ Connected /\ Phases /\ Lists /\ AcceptingFlagged
      /\ PendingIsRequested /\ OneAcceptance /\ RunningHasTask /\ RunningIsWatched
  BY DEF Inv
<1>3. /\ AcceptingFlagged' /\ OneAcceptance'
      /\ accepting' \in [Offer -> Request \cup {None}] /\ acceptInProgress' \in SUBSET Request
      /\ \A p \in Offer : accepting'[p] \in {accepting[p], None}
  BY <1>1, <1>2, AcceptFailsDo
<1>4. TypeOK'
  BY <1>1, <1>2, <1>3 DEF TypeOK, RunnerTypeOK
<1>5. QueuesOrdered' /\ Connected' /\ Lists' /\ PendingIsRequested' /\ RunningHasTask' /\ RunningIsWatched'
  BY <1>1, <1>2 DEF QueuesOrdered, Connected, Lists, PendingIsRequested, RunningHasTask, RunningIsWatched
<1>6. Phases'
  <2>1. ASSUME NEW p \in Offer
        PROVE  Phase(p)'
    <3>1. AtBroker(p)' = AtBroker(p) /\ AtRunner(p)' = AtRunner(p) /\ SettingsOf(p)' = SettingsOf(p)
      BY <1>1 DEF AtBroker, AtRunner, SettingsOf
    <3>2. Phase(p)
      BY <1>2 DEF Phases
    <3> QED
      BY <3>1, <3>2, <1>1, <1>3, PhaseKept
  <2> QED
    BY <2>1 DEF Phases
<1> QED
  BY <1>3, <1>4, <1>5, <1>6 DEF Inv

(* The runner rejects.                                                     *)
LEMMA HandleRunnerRejectKeeps ==
  ASSUME Inv, NEW r \in Runner, HandleRunnerReject(r)
  PROVE  Inv'
<1>1. PICK o : o = Head(toBroker[r]).offer
  OBVIOUS
<1>2. /\ BrokerReceives(r, "taskrejected") /\ AcceptFails(o)
      /\ UNCHANGED <<process, canSendOffers, openOffers, status, executes, toRunner, knownRunners,
                 pendingTaskOffers, pendingTaskRequests, requestTimer, tasks, taskTimer, outcome, taskOf>>
  BY <1>1 DEF HandleRunnerReject, requesterVars
<1>3. /\ TypeOK /\ QueuesOrdered /\ Connected /\ Phases /\ Lists /\ AcceptingFlagged
      /\ PendingIsRequested /\ OneAcceptance /\ RunningHasTask /\ RunningIsWatched
  BY DEF Inv
<1>4. /\ o \in Offer /\ InGoodOrder(toBroker', RunnerMessage, ToBrokerOrder)
      /\ \A p \in Offer : AtBroker(p)' \subseteq AtBroker(p)
  BY <1>1, <1>2, <1>3, BrokerTakes
<1>5. /\ AcceptingFlagged' /\ OneAcceptance'
      /\ accepting' \in [Offer -> Request \cup {None}] /\ acceptInProgress' \in SUBSET Request
      /\ \A p \in Offer : accepting'[p] \in {accepting[p], None}
  BY <1>2, <1>3, <1>4, AcceptFailsDo
<1>6. TypeOK'
  BY <1>2, <1>3, <1>4, <1>5 DEF TypeOK, RunnerTypeOK, InGoodOrder
<1>7. QueuesOrdered' /\ Connected' /\ Lists' /\ PendingIsRequested' /\ RunningHasTask' /\ RunningIsWatched'
  BY <1>2, <1>3, <1>4 DEF QueuesOrdered, Connected, Lists, PendingIsRequested, RunningHasTask, RunningIsWatched
<1>8. Phases'
  <2>1. ASSUME NEW p \in Offer
        PROVE  Phase(p)'
    <3>1. AtRunner(p)' = AtRunner(p) /\ SettingsOf(p)' = SettingsOf(p)
      BY <1>2 DEF AtRunner, SettingsOf
    <3>2. Phase(p)
      BY <1>3 DEF Phases
    <3> QED
      BY <3>1, <3>2, <1>2, <1>4, <1>5, PhaseKept
  <2> QED
    BY <2>1 DEF Phases
<1> QED
  BY <1>5, <1>6, <1>7, <1>8 DEF Inv

(* The runner accepts: the request, if it is still there, gets its task.   *)
LEMMA HandleRunnerAcceptKeeps ==
  ASSUME Inv, NEW r \in Runner, HandleRunnerAccept(r)
  PROVE  Inv'
<1>1. PICK o : o = Head(toBroker[r]).offer
  OBVIOUS
<1>2. /\ BrokerReceives(r, "taskaccepted") /\ accepting' = [accepting EXCEPT ![o] = None]
      /\ UNCHANGED <<process, canSendOffers, openOffers, status, executes,
                     knownRunners, pendingTaskOffers, acceptInProgress>>
      /\ IF accepting[o] # None
         THEN AcceptOffer(o, accepting[o])
         ELSE UNCHANGED <<requestTimer, tasks, pendingTaskRequests, outcome, taskOf, taskTimer, toRunner>>
  BY <1>1 DEF HandleRunnerAccept
<1>3. /\ TypeOK /\ QueuesOrdered /\ Connected /\ Phases /\ Lists /\ AcceptingFlagged
      /\ PendingIsRequested /\ OneAcceptance /\ RunningHasTask /\ RunningIsWatched
  BY DEF Inv
<1>4. /\ o \in Offer /\ o[1] = r /\ "taskaccepted" \in AtBroker(o)
      /\ InGoodOrder(toBroker', RunnerMessage, ToBrokerOrder) /\ AtBroker(o)' \subseteq {"taskerror"}
      /\ \A p \in Offer : AtBroker(p)' \subseteq AtBroker(p)
  BY <1>1, <1>2, <1>3, BrokerTakes
<1>5. /\ accepting \in [Offer -> Request \cup {None}] /\ accepting'[o] = None
      /\ accepting' \in [Offer -> Request \cup {None}]
      /\ \A p \in Offer : p # o => accepting'[p] = accepting[p]
  BY <1>2, <1>3, <1>4 DEF TypeOK
<1>6. /\ AtRunner(o) = {} /\ SettingsOf(o) = {} /\ tasks[o] = None
      /\ status[o] \in {"waitingForSettings", "none"}
      /\ o \notin ToSet(pendingTaskOffers)
      /\ status[o] = "waitingForSettings" => AtBroker(o)' = {}
  <2>1. Phase(o)
    BY <1>3, <1>4 DEF Phases
  <2>2. AtRunner(o) = {} /\ tasks[o] = None /\ status[o] \in {"waitingForSettings", "none"}
        /\ o \notin ToSet(pendingTaskOffers)
    BY <2>1, <1>4 DEF Phase, AcceptanceIsAlone, OfferIsFree
  <2>3. status[o] = "waitingForSettings" => AtBroker(o) \subseteq {"taskaccepted"}
    BY <2>1 DEF Phase, EndIsLast
  <2> QED
    BY <2>2, <2>3, <1>4, SettingsShow DEF AtRunner, SettingsOf
<1>7. AcceptingFlagged' <=> \A q \in acceptInProgress : outcome'[q] # "idle"
  BY <1>2, <1>3, <1>5 DEF AcceptingFlagged
<1>8. ASSUME \/ ToSet(pendingTaskRequests') \subseteq ToSet(pendingTaskRequests) \ {accepting[o]}
             \/ /\ pendingTaskRequests' = pendingTaskRequests
                /\ accepting[o] = None \/ accepting[o] \notin ToSet(pendingTaskRequests)
      PROVE  OneAcceptance'
  <2>1. \A p, s \in Offer : accepting'[p] = accepting'[s] /\ accepting'[p] # None => p = s
    BY <1>3, <1>5 DEF OneAcceptance
  <2>2. ASSUME NEW q \in ToSet(pendingTaskRequests'), q \in acceptInProgress'
        PROVE  \E p \in Offer : accepting'[p] = q
    <3>1. q \in ToSet(pendingTaskRequests) /\ q # accepting[o]
      <4>1. None \notin ToSet(pendingTaskRequests)
        BY <1>3, SetOf, RunnerAssumption DEF TypeOK, RunnerAssumption
      <4> QED
        BY <4>1, <1>8, <2>2
    <3>2. PICK p \in Offer : accepting[p] = q
      BY <3>1, <2>2, <1>2, <1>3 DEF OneAcceptance
    <3> QED
      BY <3>1, <3>2, <1>5
  <2> QED
    BY <2>1, <2>2 DEF OneAcceptance
<1>9. ASSUME NEW p \in Offer, p # o, AtRunner(p)' = AtRunner(p), SettingsOf(p)' = SettingsOf(p),
             tasks'[p] = tasks[p], p \in taskTimer' => p \in taskTimer
      PROVE  Phase(p)'
  <2>1. Phase(p)
    BY <1>3 DEF Phases
  <2> QED
    BY <2>1, <1>2, <1>4, <1>5, <1>9, PhaseKept
<1>10. ASSUME AtRunner(o)' \subseteq {"tasksettings"}, \A q \in SettingsOf(o)' : tasks'[o] = q,
              o \in taskTimer' => tasks'[o] # None \/ o \in taskTimer
       PROVE  Phase(o)'
  <2>1. AtBroker(o)' \subseteq {"taskerror"} /\ (status[o] = "waitingForSettings" => AtBroker(o)' = {})
    BY <1>4, <1>6
  <2>2. /\ status'[o] = status[o] /\ status[o] \in {"waitingForSettings", "none"}
        /\ o \notin ToSet(pendingTaskOffers')
    BY <1>2, <1>6
  <2>3. o \in taskTimer' => tasks'[o] # None
    BY <1>3, <1>4, <1>6, <1>10 DEF Phases, Phase, TimerHasTask
  <2> QED
    BY <2>1, <2>2, <2>3, <1>10 DEF Phase, OfferIsFree, AcceptanceIsAlone, EndIsLast, SettingsAreCurrent,
                               ExecutionIsCurrent, TimerHasTask
<1>11. CASE accepting[o] = None
  <2>1. UNCHANGED <<requestTimer, tasks, pendingTaskRequests, outcome, taskOf, taskTimer, toRunner>>
    BY <1>2, <1>11
  <2>2. \A p \in Offer : AtRunner(p)' = AtRunner(p) /\ SettingsOf(p)' = SettingsOf(p)
    BY <2>1 DEF AtRunner, SettingsOf
  <2>3. Phases'
    BY <2>1, <2>2, <1>6, <1>9, <1>10 DEF Phases
  <2>4. TypeOK'
    BY <2>1, <1>2, <1>3, <1>4, <1>5 DEF TypeOK, RunnerTypeOK, InGoodOrder
  <2>5. QueuesOrdered' /\ Connected' /\ Lists' /\ PendingIsRequested' /\ RunningHasTask' /\ RunningIsWatched'
    BY <2>1, <1>2, <1>3, <1>4 DEF QueuesOrdered, Connected, Lists, PendingIsRequested, RunningHasTask, RunningIsWatched
  <2>6. AcceptingFlagged' /\ OneAcceptance'
    BY <2>1, <1>3, <1>7, <1>8, <1>11 DEF AcceptingFlagged
  <2> QED
    BY <2>3, <2>4, <2>5, <2>6 DEF Inv
<1>12. CASE accepting[o] # None
  <2>1. PICK q : q = accepting[o]
    OBVIOUS
  <2>2. q \in Request /\ AcceptOffer(o, q) /\ q \in acceptInProgress
    BY <2>1, <1>2, <1>3, <1>4, <1>5, <1>12 DEF AcceptingFlagged
  <2>3. /\ requestTimer' = requestTimer \ {q} /\ tasks' = [tasks EXCEPT ![o] = q]
        /\ tasks \in [Offer -> Request \cup {None}] /\ q # None
    BY <2>2, <1>3, RunnerAssumption DEF AcceptOffer, TypeOK, RunnerAssumption
  <2>4. tasks'[o] = q /\ \A p \in Offer : p # o => tasks'[p] = tasks[p]
    BY <2>3, <1>4
  <2>5. CASE q \notin ToSet(pendingTaskRequests)
    <3>1. UNCHANGED <<pendingTaskRequests, outcome, taskOf, taskTimer, toRunner>>
      BY <2>2, <2>5 DEF AcceptOffer
    <3>2. \A p \in Offer : AtRunner(p)' = AtRunner(p) /\ SettingsOf(p)' = SettingsOf(p)
      BY <3>1 DEF AtRunner, SettingsOf
    <3>3. Phases'
      BY <3>1, <3>2, <2>4, <1>6, <1>9, <1>10 DEF Phases
    <3>4. TypeOK'
      BY <3>1, <2>2, <2>3, <1>2, <1>3, <1>4, <1>5 DEF TypeOK, RunnerTypeOK, InGoodOrder
    <3>5. QueuesOrdered' /\ Connected' /\ Lists' /\ PendingIsRequested' /\ RunningHasTask'
      BY <3>1, <1>2, <1>3, <1>4 DEF QueuesOrdered, Connected, Lists, PendingIsRequested, RunningHasTask
    <3>6. RunningIsWatched'
      <4> SUFFICES ASSUME NEW p \in Request, outcome[p] = "running"
                   PROVE  tasks'[taskOf[p]] = p /\ taskOf[p] \in taskTimer
        BY <3>1 DEF RunningIsWatched
      <4>1. tasks[taskOf[p]] = p /\ taskOf[p] \in taskTimer /\ taskOf[p] \in Offer
        BY <1>3 DEF RunningIsWatched, RunningHasTask
      <4>2. taskOf[p] # o
        BY <4>1, <1>6, RunnerAssumption DEF RunnerAssumption
      <4> QED
        BY <4>1, <4>2, <2>4
    <3>7. AcceptingFlagged' /\ OneAcceptance'
      BY <3>1, <2>1, <2>5, <1>3, <1>7, <1>8 DEF AcceptingFlagged
    <3> QED
      BY <3>3, <3>4, <3>5, <3>6, <3>7 DEF Inv
  <2>6. CASE q \in ToSet(pendingTaskRequests)
    <3> DEFINE m == [type |-> "tasksettings", offer |-> o, request |-> q]
    <3>1. /\ pendingTaskRequests' = Keep(pendingTaskRequests, Request \ {q})
          /\ outcome' = [outcome EXCEPT ![q] = "running"] /\ taskOf' = [taskOf EXCEPT ![q] = o]
          /\ taskTimer' = taskTimer \cup {o} /\ MessageRunner(o[1], m)
      BY <2>2, <2>6 DEF AcceptOffer
    <3>2. m \in BrokerMessage /\ m.type = "tasksettings" /\ m.offer = o /\ m.request = q
      BY <2>2, <1>4, MessageSets
    <3> HIDE DEF m
    <3>3. /\ pendingTaskRequests' \in Seq(Request) /\ Distinct(pendingTaskRequests')
          /\ ToSet(pendingTaskRequests') = ToSet(pendingTaskRequests) \ {q}
      BY <3>1, <1>3, RequestLeaves DEF TypeOK, Lists
    <3>4. /\ InGoodOrder(toRunner', BrokerMessage, ToRunnerOrder)
          /\ \A s \in Runner : toRunner'[s] # <<>> => process[s] = "connected"
          /\ \A p \in Offer : p # o => AtRunner(p)' = AtRunner(p) /\ SettingsOf(p)' = SettingsOf(p)
          /\ AtRunner(o)' \subseteq {"tasksettings"} /\ SettingsOf(o)' \subseteq {q}
      <4>1. \A x \in AtRunner(o) : <<x, m.type>> \in ToRunnerOrder
        BY <1>6
      <4>2. /\ InGoodOrder(toRunner', BrokerMessage, ToRunnerOrder)
            /\ \A s \in Runner : toRunner'[s] # <<>> => process[s] = "connected"
            /\ \A p \in Offer : p # o => AtRunner(p)' = AtRunner(p) /\ SettingsOf(p)' = SettingsOf(p)
            /\ AtRunner(o)' = AtRunner(o) \cup (IF Hears(o[1]) THEN {m.type} ELSE {})
            /\ SettingsOf(o)' \subseteq
                 SettingsOf(o) \cup (IF m.type = "tasksettings" THEN {m.request} ELSE {})
        BY <4>1, <3>1, <3>2, <1>3, <1>4, MessageDoes
      <4> QED
        BY <4>2, <3>2, <1>6
    <3>5. Phases'
      BY <3>1, <3>4, <2>3, <2>4, <1>9, <1>10 DEF Phases
    <3>6. /\ outcome \in [Request -> {"idle", "requested", "running"} \cup Settled]
          /\ outcome'[q] = "running" /\ \A p \in Request : p # q => outcome'[p] = outcome[p]
          /\ outcome' \in [Request -> {"idle", "requested", "running"} \cup Settled]
          /\ taskOf' \in [Request -> Offer \cup {None}]
          /\ taskOf'[q] = o /\ \A p \in Request : p # q => taskOf'[p] = taskOf[p]
      BY <3>1, <2>2, <1>3, <1>4 DEF TypeOK
    <3>7. TypeOK'
      BY <3>1, <3>3, <3>4, <3>6, <2>2, <2>3, <1>2, <1>3, <1>4, <1>5 DEF TypeOK, RunnerTypeOK, InGoodOrder
    <3>8. QueuesOrdered' /\ Connected' /\ Lists'
      BY <3>3, <3>4, <1>2, <1>3, <1>4 DEF QueuesOrdered, Connected, Lists
    <3>9. PendingIsRequested' /\ RunningHasTask'
      BY <3>3, <3>6, <1>3, <1>4 DEF PendingIsRequested, RunningHasTask
    <3>10. RunningIsWatched'
      <4>1. ASSUME NEW p \in Request, p # q, outcome[p] = "running"
            PROVE  tasks'[taskOf[p]] = p /\ taskOf[p] \in taskTimer'
        <5>1. tasks[taskOf[p]] = p /\ taskOf[p] \in taskTimer /\ taskOf[p] \in Offer
          BY <4>1, <1>3 DEF RunningIsWatched, RunningHasTask
        <5>2. taskOf[p] # o
          BY <5>1, <1>6, RunnerAssumption DEF RunnerAssumption
        <5> QED
          BY <5>1, <5>2, <2>4, <3>1
      <4> QED
        BY <4>1, <3>1, <3>6, <2>4 DEF RunningIsWatched
    <3>11. AcceptingFlagged' /\ OneAcceptance'
      <4>1. \A p \in acceptInProgress : p \in Request /\ outcome[p] # "idle"
        BY <1>3 DEF AcceptingFlagged, TypeOK
      <4>2. \A p \in acceptInProgress : outcome'[p] # "idle"
        BY <4>1, <3>6
      <4>3. ToSet(pendingTaskRequests') \subseteq ToSet(pendingTaskRequests) \ {accepting[o]}
        BY <3>3, <2>1
      <4>4. OneAcceptance'
        BY <4>3, <1>8
      <4> QED
        BY <4>2, <4>4, <1>7
    <3> QED
      BY <3>5, <3>7, <3>8, <3>9, <3>10, <3>11 DEF Inv
  <2> QED
    BY <2>5, <2>6
<1> QED
  BY <1>11, <1>12


(* A task is forgotten, and its runner told if it is to be: the offers     *)
(* stay in their phases.                                                   *)
LEMMA DeletePhases ==
  ASSUME TypeOK, QueuesOrdered, Connected, Phases, NEW o \in Offer, tasks[o] # None, DeleteTasks({o}),
         \/ MessageRunner(o[1], Message("taskcancel", o))
         \/ ~External /\ UNCHANGED toRunner,
         UNCHANGED <<process, status, executes, toBroker, pendingTaskOffers, accepting>>
  PROVE  /\ Phases' /\ InGoodOrder(toRunner', BrokerMessage, ToRunnerOrder)
         /\ \A s \in Runner : toRunner'[s] # <<>> => process[s] = "connected"
<1> DEFINE m == Message("taskcancel", o)
<1>1. m \in BrokerMessage /\ m.type = "taskcancel" /\ m.offer = o
  BY MessageSets DEF Message
<1>2. \/ MessageRunner(o[1], m)
      \/ ~External /\ UNCHANGED toRunner
  OBVIOUS
<1> HIDE DEF m
<1>3. Phase(o) /\ AtRunner(o) \subseteq {"taskofferaccept", "tasksettings", "taskcancel"}
  BY AtRunnerTypes DEF Phases
<1>4. "taskofferaccept" \notin AtRunner(o) /\ "taskoffer" \notin AtBroker(o) /\ "taskaccepted" \notin AtBroker(o)
      /\ o \notin ToSet(pendingTaskOffers)
  BY <1>3 DEF Phase, AcceptanceIsAlone, OfferIsFree
<1>5. \A x \in AtRunner(o) : <<x, m.type>> \in ToRunnerOrder
  <2>1. \A x \in AtRunner(o) : x = "tasksettings" \/ x = "taskcancel"
    BY <1>3, <1>4
  <2> QED
    BY <2>1, <1>1 DEF ToRunnerOrder
<1>6. /\ InGoodOrder(toRunner', BrokerMessage, ToRunnerOrder)
      /\ \A s \in Runner : toRunner'[s] # <<>> => process[s] = "connected"
      /\ \A p \in Offer : p # o => AtRunner(p)' = AtRunner(p) /\ SettingsOf(p)' = SettingsOf(p)
      /\ AtRunner(o) \subseteq AtRunner(o)' /\ AtRunner(o)' \subseteq AtRunner(o) \cup {"taskcancel"}
      /\ External /\ Hears(o[1]) => "taskcancel" \in AtRunner(o)'
      /\ SettingsOf(o)' \subseteq SettingsOf(o)
  <2>1. CASE MessageRunner(o[1], m)
    <3>1. /\ InGoodOrder(toRunner', BrokerMessage, ToRunnerOrder)
          /\ \A s \in Runner : toRunner'[s] # <<>> => process[s] = "connected"
          /\ \A p \in Offer : p # o => AtRunner(p)' = AtRunner(p) /\ SettingsOf(p)' = SettingsOf(p)
          /\ AtRunner(o)' = AtRunner(o) \cup (IF Hears(o[1]) THEN {m.type} ELSE {})
          /\ SettingsOf(o)' \subseteq
               SettingsOf(o) \cup (IF m.type = "tasksettings" THEN {m.request} ELSE {})
      BY <2>1, <1>1, <1>5, MessageDoes
    <3> QED
      BY <3>1, <1>1
  <2>2. CASE ~External /\ UNCHANGED toRunner
    BY <2>2 DEF AtRunner, SettingsOf, QueuesOrdered, Connected
  <2> QED
    BY <1>2, <2>1, <2>2
<1>7. /\ tasks' = [p \in Offer |-> IF p \in {o} THEN None ELSE tasks[p]]
      /\ taskTimer' = taskTimer \ {o}
  BY DEF DeleteTasks
<1>8. ASSUME NEW p \in Offer
      PROVE  Phase(p)'
  <2>1. AtBroker(p)' = AtBroker(p)
    BY DEF AtBroker
  <2>2. CASE p # o
    <3>1. Phase(p) /\ tasks'[p] = tasks[p]
      BY <2>2, <1>7 DEF Phases
    <3> QED
      BY <3>1, <2>1, <2>2, <1>6, <1>7, PhaseKept
  <2>3. CASE p = o
    <3>1. tasks'[o] = None /\ o \notin taskTimer'
      BY <1>7
    <3>2. process[o[1]] = "connected" => Hears(o[1])
      BY OfferOf DEF Connected, Hears
    <3>3. OfferIsFree(o)' /\ AcceptanceIsAlone(o)' /\ TimerHasTask(o)'
      BY <3>1, <2>1, <2>3, <1>4, <1>6 DEF OfferIsFree, AcceptanceIsAlone, TimerHasTask
    <3>4. EndIsLast(o)'
      BY <2>1, <2>3, <1>3 DEF Phase, EndIsLast
    <3>5. SettingsAreCurrent(o)'
      <4>1. SettingsOf(o) # {} => process[o[1]] = "connected"
        BY OfferOf, QueueEmpty DEF Connected, SettingsOf, SettingsAt
      <4> QED
        BY <2>1, <2>3, <3>2, <4>1, <1>3, <1>6 DEF Phase, SettingsAreCurrent
    <3>6. ExecutionIsCurrent(o)'
      BY <3>2, <1>6 DEF ExecutionIsCurrent
    <3> QED
      BY <3>3, <3>4, <3>5, <3>6, <2>3 DEF Phase
  <2> QED
    BY <2>2, <2>3
<1> QED
  BY <1>6, <1>8 DEF Phases

(* Who waited for the tasks that end waits no more; the other tasks and    *)
(* their timers stay.                                                      *)
LEMMA EndsWatched ==
  ASSUME TypeOK, PendingIsRequested, AcceptingFlagged, OneAcceptance, RunningHasTask, RunningIsWatched,
         NEW ended, DeleteTasks(ended), outcome' \in [Request -> {"idle", "requested", "running"} \cup Settled],
         \A q \in Request : \/ outcome'[q] = outcome[q] /\ (outcome[q] = "running" => taskOf[q] \notin ended)
                            \/ outcome[q] = "running" /\ outcome'[q] \in Settled,
         UNCHANGED <<acceptInProgress, accepting, pendingTaskRequests, taskOf>>
  PROVE  /\ PendingIsRequested' /\ AcceptingFlagged' /\ OneAcceptance' /\ RunningHasTask' /\ RunningIsWatched'
         /\ tasks' \in [Offer -> Request \cup {None}] /\ taskTimer' \in SUBSET Offer
<1>1. /\ tasks' = [p \in Offer |-> IF p \in ended THEN None ELSE tasks[p]]
      /\ taskTimer' = taskTimer \ ended /\ taskTimer \in SUBSET Offer
      /\ tasks \in [Offer -> Request \cup {None}] /\ acceptInProgress \in SUBSET Request
  BY DEF DeleteTasks, TypeOK
<1>2. \A q \in Request : outcome'[q] = "running" => outcome[q] = "running" /\ taskOf[q] \notin ended
  BY DEF Settled
<1>3. \A q \in Request : (outcome'[q] = "requested" <=> outcome[q] = "requested")
                         /\ (outcome'[q] = "idle" <=> outcome[q] = "idle")
  BY DEF Settled
<1>4. RunningHasTask' /\ RunningIsWatched'
  BY <1>1, <1>2 DEF RunningHasTask, RunningIsWatched
<1>5. PendingIsRequested' /\ AcceptingFlagged' /\ OneAcceptance'
  BY <1>1, <1>3 DEF PendingIsRequested, AcceptingFlagged, OneAcceptance
<1> QED
  BY <1>1, <1>4, <1>5

(* What a requester hears when its task ends                               *)
LEMMA TellDoes ==
  ASSUME TypeOK, RunningHasTask, NEW ended, NEW result \in {"done", "error"}, Tell(ended, result)
  PROVE  /\ outcome' \in [Request -> {"idle", "requested", "running"} \cup Settled]
         /\ \A q \in Request : \/ outcome'[q] = outcome[q] /\ (outcome[q] = "running" => taskOf[q] \notin ended)
                               \/ outcome[q] = "running" /\ outcome'[q] \in Settled
<1>1. outcome' = [q \in Request |->
         IF outcome[q] = "running" /\ taskOf[q] \in ended THEN result ELSE outcome[q]]
      /\ outcome \in [Request -> {"idle", "requested", "running"} \cup Settled]
  BY DEF Tell, TypeOK
<1> QED
  BY <1>1 DEF Settled

(* A runner's result arrives.                                              *)
LEMMA TaskHandlerKeeps ==
  ASSUME Inv, NEW r \in Runner, NEW type \in {"taskdone", "taskerror"}, TaskHandler(r, type)
  PROVE  Inv'
<1>1. PICK o : o = Head(toBroker[r]).offer
  OBVIOUS
<1>2. PICK result \in {"done", "error"} : Tell({o}, result)
  BY <1>1 DEF TaskHandler
<1>3. /\ BrokerReceives(r, type) /\ DeleteTasks({o})
      /\ UNCHANGED <<process, canSendOffers, openOffers, status, executes, toRunner, knownRunners,
                     pendingTaskOffers, pendingTaskRequests, acceptInProgress, requestTimer,
                     accepting, taskOf>>
  BY <1>1 DEF TaskHandler
<1>4. /\ TypeOK /\ QueuesOrdered /\ Connected /\ Phases /\ Lists /\ AcceptingFlagged
      /\ PendingIsRequested /\ OneAcceptance /\ RunningHasTask /\ RunningIsWatched
  BY DEF Inv
<1>5. /\ o \in Offer /\ type \in AtBroker(o) /\ InGoodOrder(toBroker', RunnerMessage, ToBrokerOrder)
      /\ AtBroker(o)' = {} /\ \A p \in Offer : AtBroker(p)' \subseteq AtBroker(p)
  BY <1>1, <1>3, <1>4, BrokerTakes
<1>6. /\ outcome' \in [Request -> {"idle", "requested", "running"} \cup Settled]
      /\ \A q \in Request : \/ outcome'[q] = outcome[q] /\ (outcome[q] = "running" => taskOf[q] \notin {o})
                            \/ outcome[q] = "running" /\ outcome'[q] \in Settled
  BY <1>2, <1>4, TellDoes
<1>7. /\ PendingIsRequested' /\ AcceptingFlagged' /\ OneAcceptance' /\ RunningHasTask' /\ RunningIsWatched'
      /\ tasks' \in [Offer -> Request \cup {None}] /\ taskTimer' \in SUBSET Offer
  BY <1>3, <1>4, <1>6, EndsWatched
<1>8. TypeOK'
  BY <1>3, <1>4, <1>5, <1>6, <1>7 DEF TypeOK, RunnerTypeOK, InGoodOrder
<1>9. QueuesOrdered' /\ Connected' /\ Lists'
  BY <1>3, <1>4, <1>5 DEF QueuesOrdered, Connected, Lists
<1>10. Phases'
  <2>1. ASSUME NEW p \in Offer
        PROVE  Phase(p)'
    <3>1. /\ Phase(p) /\ AtRunner(p)' = AtRunner(p) /\ SettingsOf(p)' = SettingsOf(p)
          /\ tasks'[p] = IF p = o THEN None ELSE tasks[p]
          /\ taskTimer' = taskTimer \ {o}
      BY <1>3, <1>4 DEF Phases, AtRunner, SettingsOf, DeleteTasks
    <3>2. CASE p # o
      BY <3>1, <3>2, <1>3, <1>5, PhaseKept
    <3>3. CASE p = o
      <4>1. status[o] = "none"
        BY <3>1, <3>3, <1>5 DEF Phase, EndIsLast
      <4>2. o \notin ToSet(pendingTaskOffers) /\ "taskofferaccept" \notin AtRunner(o)
        BY <3>1, <3>3, <1>5 DEF Phase, OfferIsFree, AcceptanceIsAlone
      <4> QED
        BY <3>1, <3>3, <4>1, <4>2, <1>3, <1>5
           DEF Phase, OfferIsFree, AcceptanceIsAlone, EndIsLast, SettingsAreCurrent,
               ExecutionIsCurrent, TimerHasTask
    <3> QED
      BY <3>2, <3>3
  <2> QED
    BY <2>1 DEF Phases
<1> QED
  BY <1>7, <1>8, <1>9, <1>10 DEF Inv

(* The broker's timer of a task fires.                                     *)
LEMMA HandleTaskTimeoutKeeps ==
  ASSUME Inv, NEW o \in Offer, HandleTaskTimeout(o)
  PROVE  Inv'
<1>1. /\ o \in taskTimer /\ Tell({o}, "error") /\ DeleteTasks({o})
      /\ \/ MessageRunner(o[1], Message("taskcancel", o))
         \/ ~External /\ UNCHANGED toRunner
      /\ UNCHANGED <<process, canSendOffers, openOffers, status, executes, toBroker, knownRunners,
                 pendingTaskOffers, pendingTaskRequests, acceptInProgress, requestTimer,
                 accepting, taskOf>>
  BY DEF HandleTaskTimeout
<1>2. /\ TypeOK /\ QueuesOrdered /\ Connected /\ Phases /\ Lists /\ AcceptingFlagged
      /\ PendingIsRequested /\ OneAcceptance /\ RunningHasTask /\ RunningIsWatched
  BY DEF Inv
<1>3. tasks[o] # None
  BY <1>1, <1>2 DEF Phases, Phase, TimerHasTask
<1>4. /\ Phases' /\ InGoodOrder(toRunner', BrokerMessage, ToRunnerOrder)
      /\ \A s \in Runner : toRunner'[s] # <<>> => process[s] = "connected"
  BY <1>1, <1>2, <1>3, DeletePhases
<1>5. /\ outcome' \in [Request -> {"idle", "requested", "running"} \cup Settled]
      /\ \A q \in Request : \/ outcome'[q] = outcome[q] /\ (outcome[q] = "running" => taskOf[q] \notin {o})
                            \/ outcome[q] = "running" /\ outcome'[q] \in Settled
  BY <1>1, <1>2, TellDoes
<1>6. /\ PendingIsRequested' /\ AcceptingFlagged' /\ OneAcceptance' /\ RunningHasTask' /\ RunningIsWatched'
      /\ tasks' \in [Offer -> Request \cup {None}] /\ taskTimer' \in SUBSET Offer
  BY <1>1, <1>2, <1>5, EndsWatched
<1>7. TypeOK'
  BY <1>1, <1>2, <1>4, <1>5, <1>6 DEF TypeOK, RunnerTypeOK, InGoodOrder
<1>8. QueuesOrdered' /\ Connected' /\ Lists'
  BY <1>1, <1>2, <1>4 DEF QueuesOrdered, Connected, Lists
<1> QED
  BY <1>4, <1>6, <1>7, <1>8 DEF Inv

(* A requester cancels.                                                    *)
LEMMA CancelTaskKeeps ==
  ASSUME Inv, NEW q \in Request, CancelTask(q)
  PROVE  Inv'
<1>1. PICK o : o = taskOf[q]
  OBVIOUS
<1>2. /\ outcome[q] = "running" /\ outcome' = [outcome EXCEPT ![q] = "cancelled"] /\ DeleteTasks({o})
      /\ MessageRunner(o[1], Message("taskcancel", o))
      /\ UNCHANGED <<process, canSendOffers, openOffers, status, executes, toBroker, knownRunners,
                 pendingTaskOffers, pendingTaskRequests, acceptInProgress, requestTimer,
                 accepting, taskOf>>
  BY <1>1 DEF CancelTask
<1>3. /\ TypeOK /\ QueuesOrdered /\ Connected /\ Phases /\ Lists /\ AcceptingFlagged
      /\ PendingIsRequested /\ OneAcceptance /\ RunningHasTask /\ RunningIsWatched
  BY DEF Inv
<1>4. o \in Offer /\ tasks[o] = q /\ q # None
  BY <1>1, <1>2, <1>3, RunnerAssumption DEF RunningHasTask, RunningIsWatched, RunnerAssumption
<1>5. /\ Phases' /\ InGoodOrder(toRunner', BrokerMessage, ToRunnerOrder)
      /\ \A s \in Runner : toRunner'[s] # <<>> => process[s] = "connected"
  BY <1>2, <1>3, <1>4, DeletePhases
<1>6. outcome' \in [Request -> {"idle", "requested", "running"} \cup Settled]
  BY <1>2, <1>3 DEF TypeOK, Settled
<1>7. ASSUME NEW p \in Request
      PROVE  \/ outcome'[p] = outcome[p] /\ (outcome[p] = "running" => taskOf[p] \notin {o})
             \/ outcome[p] = "running" /\ outcome'[p] \in Settled
  <2>1. CASE p = q
    BY <2>1, <1>2, <1>3 DEF TypeOK, Settled
  <2>2. CASE p # q
    <3>1. outcome'[p] = outcome[p]
      BY <2>2, <1>2, <1>3 DEF TypeOK
    <3>2. outcome[p] = "running" => tasks[taskOf[p]] = p
      BY <1>3 DEF RunningIsWatched
    <3> QED
      BY <3>1, <3>2, <2>2, <1>4
  <2> QED
    BY <2>1, <2>2
<1>8. /\ PendingIsRequested' /\ AcceptingFlagged' /\ OneAcceptance' /\ RunningHasTask' /\ RunningIsWatched'
      /\ tasks' \in [Offer -> Request \cup {None}] /\ taskTimer' \in SUBSET Offer
  BY <1>2, <1>3, <1>6, <1>7, EndsWatched
<1>9. TypeOK'
  BY <1>2, <1>3, <1>5, <1>6, <1>8 DEF TypeOK, RunnerTypeOK, InGoodOrder
<1>10. QueuesOrdered' /\ Connected' /\ Lists'
  BY <1>2, <1>3, <1>5 DEF QueuesOrdered, Connected, Lists
<1> QED
  BY <1>5, <1>8, <1>9, <1>10 DEF Inv

(* A runner connects.                                                      *)
LEMMA RegisterRunnerKeeps ==
  ASSUME Inv, NEW r \in Runner, RegisterRunner(r)
  PROVE  Inv'
<1> DEFINE m == [type |-> "runnerregistered"]
<1>1. /\ process[r] = "starting" /\ process' = [process EXCEPT ![r] = "connected"]
      /\ knownRunners' = knownRunners \cup {r} /\ toRunner' = [toRunner EXCEPT ![r] = Append(@, m)]
      /\ UNCHANGED <<canSendOffers, openOffers, status, executes, toBroker, pendingTaskOffers,
                     pendingTaskRequests, acceptInProgress, requestTimer, accepting, tasks, taskTimer,
                     outcome, taskOf>>
  BY DEF RegisterRunner, requesterVars
<1>2. /\ TypeOK /\ QueuesOrdered /\ Connected /\ Phases /\ Lists /\ AcceptingFlagged
      /\ PendingIsRequested /\ OneAcceptance /\ RunningHasTask /\ RunningIsWatched
  BY DEF Inv
<1>3. m \in BrokerMessage /\ \A o : ~Concerns(m, o)
  BY DEF BrokerMessage, Concerns
<1>4. /\ InGoodOrder(toRunner, BrokerMessage, ToRunnerOrder) /\ toRunner[r] = <<>>
      /\ toRunner \in [Runner -> Seq(BrokerMessage)]
  BY <1>1, <1>2 DEF QueuesOrdered, Connected, InGoodOrder
<1> HIDE DEF m
<1>5. /\ toRunner'[r] = <<m>> /\ \A s \in Runner : s # r => toRunner'[s] = toRunner[s]
      /\ toRunner' \in [Runner -> Seq(BrokerMessage)]
  BY <1>1, <1>3, <1>4
<1>6. InGoodOrder(toRunner', BrokerMessage, ToRunnerOrder)
  <2>1. PICK queues : queues = toRunner'
    OBVIOUS
  <2>2. ASSUME NEW s \in Runner
        PROVE  Ordered(queues[s], ToRunnerOrder) /\ \A o : About(queues[s], o) # {} => o \in OffersOf(s)
    <3>1. CASE s = r
      BY <2>1, <3>1, <1>3, <1>5, QueueOne
    <3>2. CASE s # r
      BY <2>1, <3>2, <1>4, <1>5 DEF InGoodOrder
    <3> QED
      BY <3>1, <3>2
  <2> QED
    BY <2>1, <2>2, <1>5 DEF InGoodOrder
<1>7. Phases'
  <2>1. ASSUME NEW p \in Offer
        PROVE  Phase(p)'
    <3>1. Phase(p) /\ AtBroker(p)' = AtBroker(p)
      BY <1>1, <1>2 DEF Phases, AtBroker
    <3>2. AtRunner(p)' = AtRunner(p) /\ SettingsOf(p)' = SettingsOf(p)
      <4>1. CASE p[1] = r
        BY <4>1, <1>3, <1>4, <1>5, QueueOne, QueueEmpty DEF AtRunner, SettingsOf, At, SettingsAt
      <4>2. CASE p[1] # r
        BY <4>2, <1>5, OfferOf DEF AtRunner, SettingsOf, At, SettingsAt
      <4> QED
        BY <4>1, <4>2
    <3>3. process'[p[1]] = "connected" => process[p[1]] = "connected" \/ status[p] = "none"
      <4>1. CASE p[1] = r
        BY <4>1, <1>1, <1>2, OfferOf DEF Connected
      <4>2. CASE p[1] # r
        BY <4>2, <1>1, <1>2, OfferOf DEF TypeOK, RunnerTypeOK
      <4> QED
        BY <4>1, <4>2
    <3> QED
      BY <3>1, <3>2, <3>3, <1>1, PhaseKept
  <2> QED
    BY <2>1 DEF Phases
<1>8. process \in [Runner -> {"starting", "connected", "closed", "gone"}]
      /\ process' \in [Runner -> {"starting", "connected", "closed", "gone"}]
      /\ process'[r] = "connected" /\ \A s \in Runner : s # r => process'[s] = process[s]
  BY <1>1, <1>2 DEF TypeOK, RunnerTypeOK
<1>9. TypeOK'
  <2>1. RunnerTypeOK'
    BY <1>1, <1>2, <1>5, <1>8 DEF TypeOK, RunnerTypeOK
  <2>2. knownRunners' \in SUBSET Runner
    BY <1>1, <1>2 DEF TypeOK
  <2> QED
    BY <2>1, <2>2, <1>1, <1>2 DEF TypeOK
<1>10. QueuesOrdered' /\ Lists'
  BY <1>1, <1>2, <1>6 DEF QueuesOrdered, Lists
<1>11. Connected'
  BY <1>1, <1>2, <1>5, <1>8 DEF Connected
<1>12. PendingIsRequested' /\ AcceptingFlagged' /\ OneAcceptance' /\ RunningHasTask' /\ RunningIsWatched'
  BY <1>1, <1>2 DEF PendingIsRequested, AcceptingFlagged, OneAcceptance, RunningHasTask, RunningIsWatched
<1> QED
  BY <1>7, <1>9, <1>10, <1>11, <1>12 DEF Inv

(* A runner's connection is gone, and the broker notices.                  *)
LEMMA DeregisterRunnerKeeps ==
  ASSUME Inv, NEW r \in Runner, DeregisterRunner(r)
  PROVE  Inv'
<1> DEFINE ended == OffersOf(r)
<1>1. /\ process[r] \in {"closed", "gone"} /\ knownRunners' = knownRunners \ {r}
      /\ pendingTaskOffers' = Keep(pendingTaskOffers, Offer \ OffersOf(r))
      /\ toBroker' = [toBroker EXCEPT ![r] = <<>>]
      /\ Tell({o \in OffersOf(r) : tasks[o] # None}, "error") /\ DeleteTasks(ended)
      /\ UNCHANGED <<process, canSendOffers, openOffers, status, executes, toRunner,
                     pendingTaskRequests, acceptInProgress, requestTimer, accepting, taskOf>>
  BY DEF DeregisterRunner
<1>2. /\ TypeOK /\ QueuesOrdered /\ Connected /\ Phases /\ Lists /\ AcceptingFlagged
      /\ PendingIsRequested /\ OneAcceptance /\ RunningHasTask /\ RunningIsWatched
  BY DEF Inv
<1>3. /\ pendingTaskOffers' \in Seq(Offer) /\ Distinct(pendingTaskOffers')
      /\ ToSet(pendingTaskOffers') = ToSet(pendingTaskOffers) \cap (Offer \ OffersOf(r))
  BY <1>1, <1>2, KeepKeeps, KeepDistinct DEF TypeOK, Lists
<1>4. /\ InGoodOrder(toBroker', RunnerMessage, ToBrokerOrder)
      /\ \A o \in Offer : AtBroker(o)' \subseteq AtBroker(o)
      /\ \A o \in OffersOf(r) : AtBroker(o)' = {}
  <2>1. InGoodOrder(toBroker, RunnerMessage, ToBrokerOrder) /\ toBroker[r] \in Seq(RunnerMessage)
    BY <1>2 DEF QueuesOrdered, InGoodOrder
  <2>2. SubSeq(toBroker[r], 1, 0) = <<>> /\ 0 \in 0..Len(toBroker[r])
    BY <2>1
  <2>3. toBroker' = [toBroker EXCEPT ![r] = SubSeq(@, 1, 0)]
    BY <2>2, <1>1
  <2>4. CutTo(0, toBroker, r, toBroker', RunnerMessage, ToBrokerOrder)
    BY <2>1, <2>2, <2>3, QueuesCut
  <2> QED
    BY <2>4 DEF AtBroker, CutTo
<1>5. /\ outcome' \in [Request -> {"idle", "requested", "running"} \cup Settled]
      /\ \A q \in Request : \/ outcome'[q] = outcome[q] /\ (outcome[q] = "running" => taskOf[q] \notin ended)
                            \/ outcome[q] = "running" /\ outcome'[q] \in Settled
  <2> DEFINE told == {o \in OffersOf(r) : tasks[o] # None}
  <2>1. /\ outcome' \in [Request -> {"idle", "requested", "running"} \cup Settled]
        /\ \A q \in Request : \/ outcome'[q] = outcome[q] /\ (outcome[q] = "running" => taskOf[q] \notin told)
                              \/ outcome[q] = "running" /\ outcome'[q] \in Settled
    <3>1. Tell(told, "error")
      BY <1>1
    <3> HIDE DEF told
    <3> QED
      BY <3>1, <1>2, TellDoes
  <2>2. \A q \in Request : outcome[q] = "running" /\ taskOf[q] \in ended => taskOf[q] \in told
    BY <1>2, RunnerAssumption DEF RunningIsWatched, RunnerAssumption
  <2> HIDE DEF told, ended
  <2> QED
    BY <2>1, <2>2
<1>6. /\ PendingIsRequested' /\ AcceptingFlagged' /\ OneAcceptance' /\ RunningHasTask' /\ RunningIsWatched'
      /\ tasks' \in [Offer -> Request \cup {None}] /\ taskTimer' \in SUBSET Offer
  <2> HIDE DEF ended
  <2> QED
    BY <1>1, <1>2, <1>5, EndsWatched
<1>7. TypeOK'
  BY <1>1, <1>2, <1>3, <1>4, <1>5, <1>6 DEF TypeOK, RunnerTypeOK, InGoodOrder
<1>8. QueuesOrdered' /\ Connected' /\ Lists'
  BY <1>1, <1>2, <1>3, <1>4 DEF QueuesOrdered, Connected, Lists
<1>9. Phases'
  <2>1. ASSUME NEW p \in Offer
        PROVE  Phase(p)'
    <3>1. /\ Phase(p) /\ AtRunner(p)' = AtRunner(p) /\ SettingsOf(p)' = SettingsOf(p)
          /\ tasks'[p] = IF p \in OffersOf(r) THEN None ELSE tasks[p]
          /\ taskTimer' = taskTimer \ OffersOf(r)
      BY <1>1, <1>2 DEF Phases, AtRunner, SettingsOf, DeleteTasks
    <3>2. CASE p \notin OffersOf(r)
      BY <3>1, <3>2, <1>1, <1>3, <1>4, PhaseKept
    <3>3. CASE p \in OffersOf(r)
      <4>1. toRunner[r] = <<>> /\ process'[p[1]] # "connected" /\ p[1] = r
        BY <3>3, <1>1, <1>2 DEF Connected, OffersOf
      <4>2. AtRunner(p)' = {} /\ SettingsOf(p)' = {}
        BY <3>1, <4>1, QueueEmpty DEF AtRunner, SettingsOf, At, SettingsAt
      <4>3. p \notin ToSet(pendingTaskOffers') /\ AtBroker(p)' = {} /\ p \notin taskTimer'
        BY <3>1, <3>3, <4>1, <1>1, <1>3, <1>4
      <4> QED
        BY <4>1, <4>2, <4>3
           DEF Phase, OfferIsFree, AcceptanceIsAlone, EndIsLast, SettingsAreCurrent,
               ExecutionIsCurrent, TimerHasTask
    <3> QED
      BY <3>2, <3>3
  <2> QED
    BY <2>1 DEF Phases
<1> QED
  BY <1>6, <1>7, <1>8, <1>9 DEF Inv


-----------------------------------------------------------------------------
(* The steps of a runner                                                   *)

(* A step of a runner leaves what the broker and the requester have.       *)
LEMMA RunnerFrame ==
  ASSUME Inv, UNCHANGED <<brokerVars, requesterVars>>,
         RunnerTypeOK', QueuesOrdered', Connected', Phases'
  PROVE  Inv'
<1>1. /\ UNCHANGED <<knownRunners, pendingTaskOffers, pendingTaskRequests, acceptInProgress,
                     requestTimer, accepting, tasks, taskTimer, outcome, taskOf>>
  BY DEF brokerVars, requesterVars
<1>2. /\ TypeOK /\ Lists /\ AcceptingFlagged
      /\ PendingIsRequested /\ OneAcceptance /\ RunningHasTask /\ RunningIsWatched
  BY DEF Inv
<1>3. TypeOK'
  BY <1>1, <1>2 DEF TypeOK
<1>4. Lists' /\ AcceptingFlagged' /\ PendingIsRequested' /\ OneAcceptance' /\ RunningHasTask' /\ RunningIsWatched'
  BY <1>1, <1>2 DEF Lists, AcceptingFlagged, PendingIsRequested, OneAcceptance, RunningHasTask, RunningIsWatched
<1> QED
  BY <1>3, <1>4 DEF Inv

(* The runner takes its oldest message; other offers are not concerned.    *)
LEMMA RunnerTakes ==
  ASSUME QueuesOrdered, Connected, NEW r \in Runner, NEW type, type # "runnerregistered",
         Receives(r, type), Consume(r), NEW o, o = Head(toRunner[r]).offer
  PROVE  /\ o \in Offer /\ o[1] = r /\ type \in AtRunner(o) /\ process[r] = "connected"
         /\ Head(toRunner[r]) \in BrokerMessage
         /\ type = "tasksettings" => Head(toRunner[r]).request \in SettingsOf(o)
         /\ InGoodOrder(toRunner', BrokerMessage, ToRunnerOrder)
         /\ \A s \in Runner : toRunner'[s] # <<>> => process[s] = "connected"
         /\ AtRunner(o)' \subseteq (IF type = "taskofferaccept" THEN {} ELSE {"taskcancel"})
         /\ type = "tasksettings" /\ "taskcancel" \in AtRunner(o) => "taskcancel" \in AtRunner(o)'
         /\ SettingsOf(o)' = {}
         /\ \A p \in Offer : p # o => AtRunner(p)' = AtRunner(p) /\ SettingsOf(p)' = SettingsOf(p)
<1>1. /\ toRunner[r] # <<>> /\ Head(toRunner[r]).type = type
      /\ toRunner' = [toRunner EXCEPT ![r] = Tail(@)]
      /\ InGoodOrder(toRunner, BrokerMessage, ToRunnerOrder)
  BY DEF Receives, Consume, QueuesOrdered
<1>2. TakenFrom(toRunner, r, toRunner', BrokerMessage, ToRunnerOrder)
  BY <1>1, QueuesTake
<1>3. /\ o \in Offer /\ o[1] = r /\ type \in AtRunner(o)
      /\ Head(toRunner[r]) \in BrokerMessage
      /\ type = "tasksettings" => Head(toRunner[r]).request \in SettingsOf(o)
      /\ InGoodOrder(toRunner', BrokerMessage, ToRunnerOrder)
      /\ \A x \in AtRunner(o)' : <<type, x>> \in ToRunnerOrder
      /\ AtRunner(o) \subseteq AtRunner(o)' \cup {type}
  BY <1>1, <1>2 DEF TakenFrom, AtRunner, SettingsOf
<1>4. \A p \in Offer : p # o => AtRunner(p)' = AtRunner(p) /\ SettingsOf(p)' = SettingsOf(p)
  <2>1. \A p : p # o => ~Concerns(Head(toRunner[r]), p)
    BY DEF Concerns
  <2> QED
    BY <1>2, <2>1 DEF TakenFrom, AtRunner, SettingsOf
<1>5. AtRunner(o)' \subseteq (IF type = "taskofferaccept" THEN {} ELSE {"taskcancel"})
  <2>1. \A x : <<type, x>> \in ToRunnerOrder => x = "taskcancel" /\ type # "taskofferaccept"
    BY DEF ToRunnerOrder
  <2> QED
    BY <1>3, <2>1
<1>6. SettingsOf(o)' = {}
  <2>1. "tasksettings" \notin AtRunner(o)'
    BY <1>5
  <2> QED
    BY <2>1, SettingsShow DEF AtRunner, SettingsOf
<1>7. \A s \in Runner : toRunner'[s] # <<>> => process[s] = "connected"
  <2>1. \A s \in Runner : s # r => toRunner'[s] = toRunner[s]
    BY <1>1 DEF InGoodOrder
  <2> QED
    BY <2>1, <1>1 DEF Connected
<1>8. process[r] = "connected"
  BY <1>1 DEF Connected
<1> QED
  BY <1>3, <1>4, <1>5, <1>6, <1>7, <1>8

(* An id that is not taken is nowhere.                                     *)
LEMMA NotTaken ==
  ASSUME NEW o \in Offer, o \notin Taken
  PROVE  /\ accepting[o] = None /\ tasks[o] = None /\ o \notin ToSet(pendingTaskOffers)
         /\ AtBroker(o) = {} /\ AtRunner(o) = {} /\ SettingsOf(o) = {}
<1>1. accepting[o] = None /\ tasks[o] = None /\ o \notin ToSet(pendingTaskOffers)
  BY DEF Taken
<1>2. AtBroker(o) = {}
  <2> SUFFICES ASSUME NEW x \in AtBroker(o)
               PROVE  FALSE
    OBVIOUS
  <2> DEFINE s == toBroker[o[1]]
  <2>1. PICK i \in 1..Len(s) : Concerns(s[i], o)
    BY AboutIs DEF AtBroker, At
  <2>2. s[i] \in ToSet(s) /\ s[i].offer = o
    BY <2>1 DEF ToSet, Concerns
  <2> QED
    BY <2>2 DEF Taken
<1>3. AtRunner(o) = {}
  <2> SUFFICES ASSUME NEW x \in AtRunner(o)
               PROVE  FALSE
    OBVIOUS
  <2> DEFINE s == toRunner[o[1]]
  <2>1. PICK i \in 1..Len(s) : Concerns(s[i], o)
    BY AboutIs DEF AtRunner, At
  <2>2. s[i] \in ToSet(s) /\ s[i].type # "runnerregistered" /\ s[i].offer = o
    BY <2>1 DEF ToSet, Concerns
  <2> QED
    BY <2>2 DEF Taken
<1>4. SettingsOf(o) = {}
  BY <1>3, SettingsShow DEF AtRunner, SettingsOf
<1> QED
  BY <1>1, <1>2, <1>3, <1>4

(* What a runner with a connection sends of its own offers, at the end of  *)
(* its queue                                                               *)
LEMMA SendDoes ==
  ASSUME QueuesOrdered, NEW r \in Runner, NEW messages \in Seq(RunnerMessage), Ordered(messages, ToBrokerOrder),
         \A o : About(messages, o) # {} => o \in OffersOf(r),
         \A o \in OffersOf(r) : \A x \in AtBroker(o), y \in About(messages, o) : <<x, y>> \in ToBrokerOrder,
         process[r] = "connected", Send(r, messages)
  PROVE  /\ InGoodOrder(toBroker', RunnerMessage, ToBrokerOrder)
         /\ \A o \in Offer : AtBroker(o)' = AtBroker(o) \cup About(messages, o)
<1> DEFINE extra == [s \in Runner |-> IF s = r THEN messages ELSE <<>>]
<1>1. /\ InGoodOrder(toBroker, RunnerMessage, ToBrokerOrder)
      /\ toBroker' = [toBroker EXCEPT ![r] = @ \o messages]
      /\ toBroker \in [Runner -> Seq(RunnerMessage)]
  BY DEF Send, QueuesOrdered, InGoodOrder
<1>2. /\ extra[r] = messages
      /\ extra \in [Runner -> Seq(RunnerMessage)]
      /\ \A s \in Runner : s # r => extra[s] = <<>>
  OBVIOUS
<1> HIDE DEF extra
<1>3. InGoodOrder(extra, RunnerMessage, ToBrokerOrder)
  <2>1. ASSUME NEW s \in Runner
        PROVE  Ordered(extra[s], ToBrokerOrder) /\ \A p : About(extra[s], p) # {} => p \in OffersOf(s)
    <3>1. CASE s = r
      BY <3>1, <1>2
    <3>2. CASE s # r
      BY <3>2, <1>2, QueueEmpty
    <3> QED
      BY <3>1, <3>2
  <2> QED
    BY <2>1, <1>2 DEF InGoodOrder
<1>4. ASSUME NEW o \in Offer
      PROVE  At(extra, o) = About(messages, o)
  <2>1. CASE o[1] = r
    BY <2>1, <1>2 DEF At
  <2>2. CASE o[1] # r
    <3>1. About(messages, o) = {}
      BY <2>2 DEF OffersOf
    <3> QED
      BY <2>2, <3>1, <1>2, OfferOf, QueueEmpty DEF At
  <2> QED
    BY <2>1, <2>2
<1>5. MayFollow(extra, toBroker, ToBrokerOrder)
  <2> SUFFICES ASSUME NEW o \in Offer, NEW x \in At(toBroker, o), NEW y \in At(extra, o)
               PROVE  <<x, y>> \in ToBrokerOrder
    BY DEF MayFollow
  <2>1. y \in About(messages, o) /\ o \in OffersOf(r)
    BY <1>4
  <2> QED
    BY <2>1 DEF AtBroker
<1>6. toBroker' = Joined(toBroker, extra)
  <2>1. ASSUME NEW s \in Runner
        PROVE  toBroker'[s] = toBroker[s] \o extra[s]
    <3>1. toBroker[s] \in Seq(RunnerMessage)
      BY <1>1
    <3>2. toBroker[s] \o <<>> = toBroker[s]
      BY <3>1
    <3> QED
      BY <3>2, <1>1, <1>2
  <2>2. toBroker' = [s \in Runner |-> toBroker'[s]]
    BY <1>1
  <2> QED
    BY <2>1, <2>2 DEF Joined
<1>7. /\ InGoodOrder(toBroker', RunnerMessage, ToBrokerOrder)
      /\ \A o \in Offer : At(toBroker', o) = At(toBroker, o) \cup At(extra, o)
  <2>1. InGoodOrder(toBroker, RunnerMessage, ToBrokerOrder)
    BY <1>1
  <2> QED
    BY <2>1, <1>3, <1>5, <1>6, QueuesGrow
<1> QED
  BY <1>4, <1>7 DEF AtBroker

(* New offers as a list                                                    *)
LEMMA OffersListed ==
  ASSUME NEW r \in Runner, NEW S, S \subseteq OffersOf(r)
  PROVE  /\ SetToSeq(S) \in Seq(Offer) /\ Distinct(SetToSeq(S)) /\ ToSet(SetToSeq(S)) \subseteq S
<1>1. IsFiniteSet(1..Ids)
  BY FS_Interval, RunnerAssumption DEF RunnerAssumption
<1>2. IsFiniteSet(Offer)
  BY <1>1, FS_Product, RunnerAssumption DEF Offer, RunnerAssumption
<1>3. S \subseteq Offer
  BY DEF OffersOf
<1>4. IsFiniteSet(S)
  BY <1>2, <1>3, FS_Subset
<1>5. SetToSeq(S) \in Seq(S) /\ Distinct(SetToSeq(S))
  BY <1>4, SetListed
<1>6. SetToSeq(S) \in Seq(Offer)
  BY <1>3, <1>5, SeqMonotonic
<1>7. ToSet(SetToSeq(S)) \subseteq S
  BY <1>5, SetOf
<1> QED
  BY <1>5, <1>6, <1>7

(* What sendOffers does: the offers it makes are new, and nothing else is  *)
(* about them.                                                             *)
Offering(r, st, messages) ==
  /\ status' = st /\ openOffers' \in SUBSET Offer
  /\ InGoodOrder(toBroker', RunnerMessage, ToBrokerOrder)
  /\ \A o \in Offer :
       \/ AtBroker(o)' \in {AtBroker(o), AtBroker(o) \cup About(messages, o)}
       \/ /\ AtBroker(o)' = {"taskoffer"} /\ o \notin Taken /\ status[o] = "none"
          /\ About(messages, o) = {}

(* Offers for the free slots do what Offering says.                        *)
LEMMA OfferSlotsDo ==
  ASSUME TypeOK, QueuesOrdered, NEW r \in Runner, NEW st, NEW messages \in Seq(RunnerMessage),
         Ordered(messages, ToBrokerOrder),
         \A o : About(messages, o) # {} => o \in OffersOf(r) /\ status[o] # "none",
         \A o \in OffersOf(r) : \A x \in AtBroker(o), y \in About(messages, o) : <<x, y>> \in ToBrokerOrder,
         OfferSlots(r, st, messages, Taken)
  PROVE  Offering(r, st, messages)
<1>1. PICK stale \in SUBSET (openOffers \cap OffersOf(r)) :
        LET kept  == openOffers \ stale
            fresh == {o \in OffersOf(r) : o \notin openOffers \cup Taken /\ status[o] = "none"}
            new   == {o \in fresh : canSendOffers[r]
                        /\ Cardinality({p \in fresh : p[2] < o[2]}) < OffersToSend(r, kept, st)}
            sent  == SetToSeq(new) IN
        /\ openOffers' = kept \cup new
        /\ status' = st
        /\ Send(r, messages \o [i \in 1..Len(sent) |-> Message("taskoffer", sent[i])])
  BY DEF OfferSlots
<1> DEFINE kept  == openOffers \ stale
           fresh == {o \in OffersOf(r) : o \notin openOffers \cup Taken /\ status[o] = "none"}
           new   == {o \in fresh : canSendOffers[r]
                       /\ Cardinality({p \in fresh : p[2] < o[2]}) < OffersToSend(r, kept, st)}
           sent  == SetToSeq(new)
           offered == [i \in 1..Len(sent) |-> Message("taskoffer", sent[i])]
<1>2. openOffers' = kept \cup new /\ status' = st /\ Send(r, messages \o offered)
  BY <1>1
<1>3. new \subseteq OffersOf(r) /\ \A o \in new : o \notin Taken /\ status[o] = "none"
  OBVIOUS
<1>4. openOffers' \in SUBSET Offer
  BY <1>2 DEF TypeOK, RunnerTypeOK, OffersOf
<1> HIDE DEF new
<1>5. sent \in Seq(Offer) /\ Distinct(sent) /\ ToSet(sent) \subseteq new
  BY <1>3, OffersListed
<1> HIDE DEF sent
<1>6. /\ offered \in Seq([type : {"taskoffer"}, offer : Offer]) /\ Ordered(offered, ToBrokerOrder)
      /\ \A o : About(offered, o) = IF o \in ToSet(sent) THEN {"taskoffer"} ELSE {}
  BY <1>5, QueueOfOffers
<1>7. offered \in Seq(RunnerMessage)
  <2>1. [type : {"taskoffer"}, offer : Offer] \subseteq RunnerMessage
    BY DEF RunnerMessage
  <2> HIDE DEF offered
  <2>2. offered \in Seq([type : {"taskoffer"}, offer : Offer])
    BY <1>6
  <2> QED
    BY <2>1, <2>2, SeqMonotonic
<1> HIDE DEF offered
<1>8. \A o : \A x \in About(messages, o), y \in About(offered, o) : <<x, y>> \in ToBrokerOrder
  <2> SUFFICES ASSUME NEW o, NEW x \in About(messages, o), NEW y \in About(offered, o)
               PROVE  FALSE
    OBVIOUS
  <2>1. o \in new
    BY <1>5, <1>6
  <2> QED
    BY <2>1, <1>3
<1> DEFINE all == messages \o offered
<1>9. /\ all \in Seq(RunnerMessage) /\ Ordered(all, ToBrokerOrder)
      /\ \A o : About(all, o) = About(messages, o) \cup About(offered, o)
  BY <1>6, <1>7, <1>8, QueueConcat
<1>10. Send(r, all)
  BY <1>2
<1> HIDE DEF all
<1>11. \A o : About(all, o) # {} => o \in OffersOf(r)
  BY <1>3, <1>5, <1>6, <1>9
<1>12. \A o \in OffersOf(r) : \A x \in AtBroker(o), y \in About(all, o) : <<x, y>> \in ToBrokerOrder
  <2> SUFFICES ASSUME NEW o \in OffersOf(r), NEW x \in AtBroker(o), NEW y \in About(all, o)
               PROVE  <<x, y>> \in ToBrokerOrder
    OBVIOUS
  <2>1. CASE y \in About(messages, o)
    BY <2>1
  <2>2. CASE y \in About(offered, o)
    <3>1. o \in Offer /\ o \notin Taken
      BY <2>2, <1>3, <1>5, <1>6 DEF OffersOf
    <3> QED
      BY <3>1, NotTaken
  <2> QED
    BY <2>1, <2>2, <1>9
<1>13. CASE process[r] # "connected"
  <2>1. InGoodOrder(toBroker', RunnerMessage, ToBrokerOrder) /\ \A o \in Offer : AtBroker(o)' = AtBroker(o)
    BY <1>10, <1>13 DEF Send, QueuesOrdered, AtBroker
  <2> QED
    BY <2>1, <1>2, <1>4 DEF Offering
<1>14. CASE process[r] = "connected"
  <2>1. /\ InGoodOrder(toBroker', RunnerMessage, ToBrokerOrder)
        /\ \A o \in Offer : AtBroker(o)' = AtBroker(o) \cup About(all, o)
    BY <1>9, <1>10, <1>11, <1>12, <1>14, SendDoes
  <2>2. ASSUME NEW o \in Offer
        PROVE  \/ AtBroker(o)' = AtBroker(o) \cup About(messages, o)
               \/ /\ AtBroker(o)' = {"taskoffer"} /\ o \notin Taken /\ status[o] = "none"
                  /\ About(messages, o) = {}
    <3>1. AtBroker(o)' = AtBroker(o) \cup About(messages, o) \cup About(offered, o)
      BY <1>9, <2>1
    <3>2. CASE o \notin ToSet(sent)
      BY <3>1, <3>2, <1>6
    <3>3. CASE o \in ToSet(sent)
      <4>1. o \notin Taken /\ status[o] = "none" /\ About(messages, o) = {} /\ AtBroker(o) = {}
        BY <3>3, <1>3, <1>5, NotTaken
      <4>2. About(offered, o) = {"taskoffer"}
        BY <3>3, <1>6
      <4> QED
        BY <3>1, <4>1, <4>2
    <3> QED
      BY <3>2, <3>3
  <2> QED
    BY <2>1, <2>2, <1>2, <1>4 DEF Offering
<1> QED
  BY <1>13, <1>14


(* An offer that a step of a runner does not concern stays in its phase,   *)
(* unless it is a new one.                                                 *)
LEMMA OtherPhase ==
  ASSUME Phases, NEW o \in Offer, UNCHANGED <<brokerVars, requesterVars>>,
         AtRunner(o)' = AtRunner(o), SettingsOf(o)' = SettingsOf(o),
         status'[o] = status[o], executes'[o] = executes[o],
         process'[o[1]] = "connected" => process[o[1]] = "connected" \/ status[o] = "none",
         \/ AtBroker(o)' \subseteq AtBroker(o)
         \/ AtBroker(o)' = {"taskoffer"} /\ o \notin Taken /\ status[o] = "none"
  PROVE  Phase(o)'
<1>1. /\ Phase(o)
      /\ UNCHANGED <<knownRunners, pendingTaskOffers, accepting, tasks, taskTimer>>
  BY DEF Phases, brokerVars
<1>2. CASE AtBroker(o)' \subseteq AtBroker(o)
  BY <1>1, <1>2, PhaseKept
<1>3. CASE AtBroker(o)' = {"taskoffer"} /\ o \notin Taken /\ status[o] = "none"
  <2>1. /\ accepting[o] = None /\ tasks[o] = None /\ o \notin ToSet(pendingTaskOffers)
        /\ AtRunner(o) = {} /\ SettingsOf(o) = {}
    BY <1>3, NotTaken
  <2>2. o \in taskTimer' => tasks'[o] # None
    BY <1>1 DEF Phase, TimerHasTask
  <2> QED
    BY <2>1, <2>2, <1>1, <1>3 DEF Phase, OfferIsFree, AcceptanceIsAlone, EndIsLast, SettingsAreCurrent,
                                  ExecutionIsCurrent, TimerHasTask
<1> QED
  BY <1>2, <1>3

(* The runner hears that it is registered.                                 *)
LEMMA RunnerRegisteredKeeps ==
  ASSUME Inv, NEW r \in Runner, RunnerRegistered(r), UNCHANGED <<brokerVars, requesterVars>>
  PROVE  Inv'
<1>1. /\ toRunner[r] # <<>> /\ Head(toRunner[r]).type = "runnerregistered"
      /\ toRunner' = [toRunner EXCEPT ![r] = Tail(@)]
      /\ canSendOffers' = [canSendOffers EXCEPT ![r] = TRUE]
      /\ UNCHANGED <<process, openOffers, status, executes, toBroker>>
  BY DEF RunnerRegistered, Receives, Consume
<1>2. /\ RunnerTypeOK /\ QueuesOrdered /\ Connected /\ Phases
      /\ InGoodOrder(toRunner, BrokerMessage, ToRunnerOrder)
  BY DEF Inv, TypeOK, QueuesOrdered
<1>3. TakenFrom(toRunner, r, toRunner', BrokerMessage, ToRunnerOrder)
  BY <1>1, <1>2, QueuesTake
<1>4. /\ InGoodOrder(toRunner', BrokerMessage, ToRunnerOrder)
      /\ \A o \in Offer : AtRunner(o)' = AtRunner(o) /\ SettingsOf(o)' = SettingsOf(o)
  BY <1>1, <1>3 DEF TakenFrom, Concerns, AtRunner, SettingsOf
<1>5. RunnerTypeOK'
  BY <1>1, <1>2, <1>4 DEF RunnerTypeOK, InGoodOrder
<1>6. QueuesOrdered'
  BY <1>1, <1>2, <1>4 DEF QueuesOrdered
<1>7. Connected'
  <2>1. \A s \in Runner : s # r => toRunner'[s] = toRunner[s]
    BY <1>1, <1>2 DEF InGoodOrder
  <2>2. UNCHANGED knownRunners
    BY DEF brokerVars
  <2> QED
    BY <2>1, <2>2, <1>1, <1>2 DEF Connected
<1>8. Phases'
  <2>1. ASSUME NEW o \in Offer
        PROVE  Phase(o)'
    <3>1. AtBroker(o)' = AtBroker(o)
      BY <1>1 DEF AtBroker
    <3> QED
      BY <3>1, <1>1, <1>2, <1>4, OtherPhase
  <2> QED
    BY <2>1 DEF Phases
<1> QED
  BY <1>5, <1>6, <1>7, <1>8, RunnerFrame

(* The runner stops offering.                                              *)
LEMMA StopTaskOffersKeeps ==
  ASSUME Inv, NEW r \in Runner, StopTaskOffers(r), UNCHANGED <<brokerVars, requesterVars>>
  PROVE  Inv'
<1>1. /\ canSendOffers' = [canSendOffers EXCEPT ![r] = FALSE]
      /\ UNCHANGED <<process, openOffers, status, executes, toRunner, toBroker>>
  BY DEF StopTaskOffers
<1>2. RunnerTypeOK /\ QueuesOrdered /\ Connected /\ Phases /\ UNCHANGED knownRunners
  BY DEF Inv, TypeOK, brokerVars
<1>3. RunnerTypeOK'
  BY <1>1, <1>2 DEF RunnerTypeOK
<1>4. QueuesOrdered' /\ Connected'
  BY <1>1, <1>2 DEF QueuesOrdered, Connected
<1>5. Phases'
  <2>1. ASSUME NEW o \in Offer
        PROVE  Phase(o)'
    <3>1. AtBroker(o)' = AtBroker(o) /\ AtRunner(o)' = AtRunner(o) /\ SettingsOf(o)' = SettingsOf(o)
      BY <1>1 DEF AtBroker, AtRunner, SettingsOf
    <3> QED
      BY <3>1, <1>1, <1>2, OtherPhase
  <2> QED
    BY <2>1 DEF Phases
<1> QED
  BY <1>3, <1>4, <1>5, RunnerFrame

(* The runner's connection breaks.                                         *)
LEMMA ConnectionClosesKeeps ==
  ASSUME Inv, NEW r \in Runner, ConnectionCloses(r), UNCHANGED <<brokerVars, requesterVars>>
  PROVE  Inv'
<1>1. PICK n \in 0..Len(toBroker[r]) : toBroker' = [toBroker EXCEPT ![r] = SubSeq(@, 1, n)]
  BY DEF ConnectionCloses
<1>2. /\ process[r] = "connected" /\ process' = [process EXCEPT ![r] = "closed"]
      /\ canSendOffers' = [canSendOffers EXCEPT ![r] = FALSE]
      /\ toRunner' = [toRunner EXCEPT ![r] = <<>>]
      /\ UNCHANGED <<openOffers, status, executes>>
  BY DEF ConnectionCloses
<1>3. /\ RunnerTypeOK /\ QueuesOrdered /\ Connected /\ Phases
      /\ UNCHANGED <<knownRunners, pendingTaskOffers, accepting, tasks, taskTimer>>
      /\ InGoodOrder(toRunner, BrokerMessage, ToRunnerOrder)
      /\ InGoodOrder(toBroker, RunnerMessage, ToBrokerOrder)
      /\ toRunner \in [Runner -> Seq(BrokerMessage)]
  BY DEF Inv, TypeOK, brokerVars, QueuesOrdered, InGoodOrder
<1>4. CutTo(n, toBroker, r, toBroker', RunnerMessage, ToBrokerOrder)
  BY <1>1, <1>3, QueuesCut
<1>5. CutTo(0, toRunner, r, toRunner', BrokerMessage, ToRunnerOrder)
  <2>1. SubSeq(toRunner[r], 1, 0) = <<>> /\ 0 \in 0..Len(toRunner[r])
    BY <1>3
  <2>2. toRunner' = [toRunner EXCEPT ![r] = SubSeq(@, 1, 0)]
    BY <2>1, <1>2
  <2> QED
    BY <2>1, <2>2, <1>3, QueuesCut
<1>6. QueuesOrdered' /\ \A o \in Offer : AtBroker(o)' \subseteq AtBroker(o)
  BY <1>4, <1>5 DEF QueuesOrdered, CutTo, AtBroker
<1>7. RunnerTypeOK'
  <2>1. toRunner' \in [Runner -> Seq(BrokerMessage)] /\ toBroker' \in [Runner -> Seq(RunnerMessage)]
    BY <1>6 DEF QueuesOrdered, InGoodOrder
  <2> QED
    BY <2>1, <1>2, <1>3 DEF RunnerTypeOK
<1>8. /\ toRunner'[r] = <<>> /\ \A s \in Runner : s # r => toRunner'[s] = toRunner[s]
      /\ process'[r] = "closed" /\ \A s \in Runner : s # r => process'[s] = process[s]
  BY <1>2, <1>3 DEF RunnerTypeOK
<1>9. Connected'
  BY <1>2, <1>3, <1>8 DEF Connected
<1>10. Phases'
  <2>1. ASSUME NEW o \in Offer
        PROVE  Phase(o)'
    <3>1. CASE o[1] # r
      <4>1. AtRunner(o)' = AtRunner(o) /\ SettingsOf(o)' = SettingsOf(o)
        BY <3>1, <1>2, <1>3, OfferOf DEF AtRunner, SettingsOf, At, SettingsAt
      <4> QED
        BY <3>1, <4>1, <1>2, <1>3, <1>6, <1>8, OfferOf, OtherPhase
    <3>2. CASE o[1] = r
      <4>1. AtRunner(o)' = {} /\ SettingsOf(o)' = {}
        BY <3>2, <1>5, OfferOf DEF CutTo, AtRunner, SettingsOf
      <4>2. Phase(o) /\ AtBroker(o)' \subseteq AtBroker(o)
        BY <1>3, <1>6 DEF Phases
      <4>3. process'[o[1]] # "connected" /\ status'[o] = status[o] /\ tasks' = tasks /\ accepting' = accepting
        BY <3>2, <1>2, <1>3, <1>8
      <4> QED
        BY <4>1, <4>2, <4>3, <1>3
           DEF Phase, OfferIsFree, AcceptanceIsAlone, EndIsLast, SettingsAreCurrent,
               ExecutionIsCurrent, TimerHasTask
    <3> QED
      BY <3>1, <3>2
  <2> QED
    BY <2>1 DEF Phases
<1> QED
  BY <1>6, <1>7, <1>9, <1>10, RunnerFrame

(* The runner's process ends.                                              *)
LEMMA ProcessEndsKeeps ==
  ASSUME Inv, NEW r \in Runner, ProcessEnds(r), UNCHANGED <<brokerVars, requesterVars>>
  PROVE  Inv'
<1>1. PICK n \in 0..Len(toBroker[r]) : toBroker' = [toBroker EXCEPT ![r] = SubSeq(@, 1, n)]
  BY DEF ProcessEnds
<1>2. /\ process' = [process EXCEPT ![r] = "gone"]
      /\ canSendOffers' = [canSendOffers EXCEPT ![r] = FALSE]
      /\ openOffers' = openOffers \ OffersOf(r)
      /\ status' = [o \in Offer |-> IF o[1] = r THEN "none" ELSE status[o]]
      /\ executes' = [o \in Offer |-> IF o[1] = r THEN None ELSE executes[o]]
      /\ toRunner' = [toRunner EXCEPT ![r] = <<>>]
  BY DEF ProcessEnds
<1>3. /\ RunnerTypeOK /\ QueuesOrdered /\ Connected /\ Phases
      /\ UNCHANGED <<knownRunners, pendingTaskOffers, accepting, tasks, taskTimer>>
      /\ InGoodOrder(toRunner, BrokerMessage, ToRunnerOrder)
      /\ InGoodOrder(toBroker, RunnerMessage, ToBrokerOrder)
      /\ toRunner \in [Runner -> Seq(BrokerMessage)]
  BY DEF Inv, TypeOK, brokerVars, QueuesOrdered, InGoodOrder
<1>4. CutTo(n, toBroker, r, toBroker', RunnerMessage, ToBrokerOrder)
  BY <1>1, <1>3, QueuesCut
<1>5. CutTo(0, toRunner, r, toRunner', BrokerMessage, ToRunnerOrder)
  <2>1. SubSeq(toRunner[r], 1, 0) = <<>> /\ 0 \in 0..Len(toRunner[r])
    BY <1>3
  <2>2. toRunner' = [toRunner EXCEPT ![r] = SubSeq(@, 1, 0)]
    BY <2>1, <1>2
  <2> QED
    BY <2>1, <2>2, <1>3, QueuesCut
<1>6. QueuesOrdered' /\ \A o \in Offer : AtBroker(o)' \subseteq AtBroker(o)
  BY <1>4, <1>5 DEF QueuesOrdered, CutTo, AtBroker
<1>7. RunnerTypeOK'
  <2>1. status' \in [Offer -> TaskStatus \cup {"none"}] /\ executes' \in [Offer -> Request \cup {None}]
    BY <1>2, <1>3 DEF RunnerTypeOK
  <2>2. toRunner' \in [Runner -> Seq(BrokerMessage)] /\ toBroker' \in [Runner -> Seq(RunnerMessage)]
    BY <1>6 DEF QueuesOrdered, InGoodOrder
  <2> QED
    BY <2>1, <2>2, <1>2, <1>3 DEF RunnerTypeOK
<1>8. Connected'
  <2>1. /\ toRunner'[r] = <<>> /\ \A s \in Runner : s # r => toRunner'[s] = toRunner[s]
    BY <1>2, <1>3
  <2>2. /\ process'[r] = "gone" /\ \A s \in Runner : s # r => process'[s] = process[s]
    BY <1>2, <1>3 DEF RunnerTypeOK
  <2>3. \A s \in Runner : \A o \in OffersOf(s) : status'[o] # "none" => s # r /\ status[o] # "none"
    BY <1>2 DEF OffersOf
  <2> QED
    BY <2>1, <2>2, <2>3, <1>3 DEF Connected
<1>9. Phases'
  <2>1. ASSUME NEW o \in Offer
        PROVE  Phase(o)'
    <3>1. CASE o[1] # r
      <4>1. AtRunner(o)' = AtRunner(o) /\ SettingsOf(o)' = SettingsOf(o)
        BY <3>1, <1>2, <1>3, OfferOf DEF AtRunner, SettingsOf, At, SettingsAt
      <4>2. status'[o] = status[o] /\ executes'[o] = executes[o] /\ process'[o[1]] = process[o[1]]
        BY <3>1, <1>2, <1>3, OfferOf DEF RunnerTypeOK
      <4> QED
        BY <4>1, <4>2, <1>3, <1>6, OtherPhase
    <3>2. CASE o[1] = r
      <4>1. AtRunner(o)' = {} /\ SettingsOf(o)' = {}
        BY <3>2, <1>5, OfferOf DEF CutTo, AtRunner, SettingsOf
      <4>2. status'[o] = "none"
        BY <3>2, <1>2
      <4>3. /\ Phase(o) /\ AtBroker(o)' \subseteq AtBroker(o)
        BY <1>3, <1>6 DEF Phases
      <4> QED
        BY <4>1, <4>2, <4>3, <1>3
           DEF Phase, OfferIsFree, AcceptanceIsAlone, EndIsLast, SettingsAreCurrent,
               ExecutionIsCurrent, TimerHasTask
    <3> QED
      BY <3>1, <3>2
  <2> QED
    BY <2>1 DEF Phases
<1> QED
  BY <1>6, <1>7, <1>8, <1>9, RunnerFrame

(* The runner sends offers.                                                *)
LEMMA SendOffersKeeps ==
  ASSUME Inv, NEW r \in Runner, SendOffers(r, Taken), UNCHANGED <<brokerVars, requesterVars>>
  PROVE  Inv'
<1>1. /\ OfferSlots(r, status, <<>>, Taken)
      /\ UNCHANGED <<process, canSendOffers, executes, toRunner>>
  BY DEF SendOffers
<1>2. TypeOK /\ RunnerTypeOK /\ QueuesOrdered /\ Connected /\ Phases /\ UNCHANGED knownRunners
  BY DEF Inv, TypeOK, brokerVars
<1>3. Offering(r, status, <<>>)
  <2>1. <<>> \in Seq(RunnerMessage)
    OBVIOUS
  <2> QED
    BY <2>1, <1>1, <1>2, QueueEmpty, OfferSlotsDo
<1>4. /\ status' = status /\ openOffers' \in SUBSET Offer
      /\ InGoodOrder(toBroker', RunnerMessage, ToBrokerOrder)
      /\ \A o \in Offer : \/ AtBroker(o)' \subseteq AtBroker(o)
                          \/ AtBroker(o)' = {"taskoffer"} /\ o \notin Taken /\ status[o] = "none"
  BY <1>3, QueueEmpty DEF Offering
<1>5. RunnerTypeOK'
  BY <1>1, <1>2, <1>4 DEF RunnerTypeOK, InGoodOrder
<1>6. QueuesOrdered' /\ Connected'
  BY <1>1, <1>2, <1>4 DEF QueuesOrdered, Connected
<1>7. Phases'
  <2>1. ASSUME NEW o \in Offer
        PROVE  Phase(o)'
    <3>1. AtRunner(o)' = AtRunner(o) /\ SettingsOf(o)' = SettingsOf(o)
      BY <1>1 DEF AtRunner, SettingsOf
    <3> QED
      BY <3>1, <1>1, <1>2, <1>4, OtherPhase
  <2> QED
    BY <2>1 DEF Phases
<1> QED
  BY <1>5, <1>6, <1>7, RunnerFrame

(* An acceptance arrives at the runner.                                    *)
LEMMA OfferAcceptedKeeps ==
  ASSUME Inv, NEW r \in Runner, OfferAccepted(r), UNCHANGED <<brokerVars, requesterVars>>
  PROVE  Inv'
<1>1. PICK o : o = Head(toRunner[r]).offer
  OBVIOUS
<1>2. PICK accepts \in BOOLEAN :
        /\ status' = IF accepts THEN [status EXCEPT ![o] = "waitingForSettings"] ELSE status
        /\ Send(r, <<Message(IF accepts THEN "taskaccepted" ELSE "taskrejected", o)>>)
  BY <1>1 DEF OfferAccepted
<1>3. /\ Receives(r, "taskofferaccept") /\ Consume(r) /\ openOffers' = openOffers \ {o}
      /\ UNCHANGED <<process, canSendOffers, executes>>
  BY <1>1 DEF OfferAccepted
<1>4. /\ RunnerTypeOK /\ QueuesOrdered /\ Connected /\ Phases
      /\ UNCHANGED <<knownRunners, pendingTaskOffers, accepting, tasks, taskTimer>>
  BY DEF Inv, TypeOK, brokerVars
<1>5. /\ o \in Offer /\ o[1] = r /\ "taskofferaccept" \in AtRunner(o) /\ process[r] = "connected"
      /\ InGoodOrder(toRunner', BrokerMessage, ToRunnerOrder)
      /\ \A s \in Runner : toRunner'[s] # <<>> => process[s] = "connected"
      /\ AtRunner(o)' = {} /\ SettingsOf(o)' = {}
      /\ \A p \in Offer : p # o => AtRunner(p)' = AtRunner(p) /\ SettingsOf(p)' = SettingsOf(p)
  BY <1>1, <1>3, <1>4, RunnerTakes
<1>6. /\ AtBroker(o) = {} /\ tasks[o] = None /\ status[o] = "none" /\ o \notin ToSet(pendingTaskOffers)
  BY <1>4, <1>5 DEF Phases, Phase, AcceptanceIsAlone, OfferIsFree
<1>7. PICK m : m = Message(IF accepts THEN "taskaccepted" ELSE "taskrejected", o)
  OBVIOUS
<1>8. /\ m \in RunnerMessage /\ m.type = (IF accepts THEN "taskaccepted" ELSE "taskrejected")
      /\ \A p : Concerns(m, p) <=> p = o
  BY <1>5, <1>7, MessageSets DEF Message, Concerns
<1>9. /\ InGoodOrder(toBroker', RunnerMessage, ToBrokerOrder)
      /\ \A p \in Offer : AtBroker(p)' = AtBroker(p) \cup (IF p = o THEN {m.type} ELSE {})
  <2>1. /\ <<m>> \in Seq(RunnerMessage) /\ Ordered(<<m>>, ToBrokerOrder)
        /\ \A p : About(<<m>>, p) = IF p = o THEN {m.type} ELSE {}
    <3>1. <<m>> \in Seq(RunnerMessage)
      BY <1>8
    <3>2. Ordered(<<m>>, ToBrokerOrder) /\ \A p : About(<<m>>, p) = IF Concerns(m, p) THEN {m.type} ELSE {}
      BY QueueOne
    <3> QED
      BY <3>1, <3>2, <1>8
  <2>2. \A p : About(<<m>>, p) # {} => p \in OffersOf(r)
    BY <2>1, <1>5 DEF OffersOf
  <2>3. \A p \in OffersOf(r) : \A x \in AtBroker(p), y \in About(<<m>>, p) : <<x, y>> \in ToBrokerOrder
    BY <2>1, <1>6
  <2>4. Send(r, <<m>>)
    BY <1>2, <1>7
  <2>5. /\ InGoodOrder(toBroker', RunnerMessage, ToBrokerOrder)
        /\ \A p \in Offer : AtBroker(p)' = AtBroker(p) \cup About(<<m>>, p)
    BY <2>1, <2>2, <2>3, <2>4, <1>4, <1>5, SendDoes
  <2> QED
    BY <2>1, <2>5
<1>10. /\ status'[o] = (IF accepts THEN "waitingForSettings" ELSE "none")
       /\ status' \in [Offer -> TaskStatus \cup {"none"}]
       /\ \A p \in Offer : p # o => status'[p] = status[p]
  BY <1>2, <1>4, <1>5, <1>6 DEF RunnerTypeOK, TaskStatus
<1>11. RunnerTypeOK'
  BY <1>3, <1>4, <1>5, <1>9, <1>10 DEF RunnerTypeOK, InGoodOrder
<1>12. QueuesOrdered'
  BY <1>5, <1>9 DEF QueuesOrdered
<1>13. Connected'
  <2>1. \A s \in Runner : \A p \in OffersOf(s) : status'[p] # "none" => process[s] # "starting"
    BY <1>4, <1>5, <1>10 DEF Connected, OffersOf
  <2> QED
    BY <2>1, <1>3, <1>4, <1>5 DEF Connected
<1>14. Phases'
  <2>1. ASSUME NEW p \in Offer
        PROVE  Phase(p)'
    <3>1. CASE p # o
      BY <3>1, <1>3, <1>4, <1>5, <1>9, <1>10, OtherPhase
    <3>2. CASE p = o
      <4>1. AtBroker(o)' = {m.type}
        BY <1>5, <1>6, <1>9
      <4>2. o \in taskTimer' => tasks'[o] # None
        BY <1>4, <1>5 DEF Phases, Phase, TimerHasTask
      <4> QED
        BY <3>2, <4>1, <4>2, <1>4, <1>5, <1>6, <1>8, <1>10
           DEF Phase, OfferIsFree, AcceptanceIsAlone, EndIsLast, SettingsAreCurrent,
               ExecutionIsCurrent, TimerHasTask
    <3> QED
      BY <3>1, <3>2
  <2> QED
    BY <2>1 DEF Phases
<1> QED
  BY <1>11, <1>12, <1>13, <1>14, RunnerFrame

(* The settings arrive, and the task starts.                               *)
LEMMA ReceivedSettingsKeeps ==
  ASSUME Inv, NEW r \in Runner, ReceivedSettings(r), UNCHANGED <<brokerVars, requesterVars>>
  PROVE  Inv'
<1>1. PICK o, q : o = Head(toRunner[r]).offer /\ q = Head(toRunner[r]).request
  OBVIOUS
<1> DEFINE waits == status[o] = "waitingForSettings"
<1>2. /\ Receives(r, "tasksettings") /\ Consume(r)
      /\ status' = IF waits THEN [status EXCEPT ![o] = "running"] ELSE status
      /\ executes' = IF waits THEN [executes EXCEPT ![o] = q] ELSE executes
      /\ UNCHANGED <<process, canSendOffers, openOffers, toBroker>>
  BY <1>1 DEF ReceivedSettings
<1>3. /\ RunnerTypeOK /\ QueuesOrdered /\ Connected /\ Phases
      /\ UNCHANGED <<knownRunners, pendingTaskOffers, accepting, tasks, taskTimer>>
      /\ InGoodOrder(toBroker, RunnerMessage, ToBrokerOrder)
  BY DEF Inv, TypeOK, brokerVars, QueuesOrdered
<1>4. /\ o \in Offer /\ o[1] = r /\ "tasksettings" \in AtRunner(o) /\ process[r] = "connected"
      /\ Head(toRunner[r]) \in BrokerMessage /\ q \in SettingsOf(o)
      /\ InGoodOrder(toRunner', BrokerMessage, ToRunnerOrder)
      /\ \A s \in Runner : toRunner'[s] # <<>> => process[s] = "connected"
      /\ AtRunner(o)' \subseteq {"taskcancel"} /\ SettingsOf(o)' = {}
      /\ "taskcancel" \in AtRunner(o) => "taskcancel" \in AtRunner(o)'
      /\ \A p \in Offer : p # o => AtRunner(p)' = AtRunner(p) /\ SettingsOf(p)' = SettingsOf(p)
  BY <1>1, <1>2, <1>3, RunnerTakes
<1>5. q \in Request
  <2>1. Head(toRunner[r]).type = "tasksettings"
    BY <1>2 DEF Receives
  <2> QED
    BY <2>1, <1>1, <1>4 DEF BrokerMessage
<1>6. /\ Phase(o) /\ o \notin ToSet(pendingTaskOffers) /\ "taskoffer" \notin AtBroker(o)
      /\ "taskaccepted" \notin AtBroker(o) /\ status[o] \in {"waitingForSettings", "none"}
      /\ status[o] = "waitingForSettings" =>
           AtBroker(o) = {} /\ (External => tasks[o] = q \/ "taskcancel" \in AtRunner(o))
  BY <1>3, <1>4 DEF Phases, Phase, OfferIsFree, AcceptanceIsAlone, SettingsAreCurrent
<1>7. /\ status'[o] = (IF waits THEN "running" ELSE "none")
      /\ waits => executes'[o] = q
      /\ status' \in [Offer -> TaskStatus \cup {"none"}]
      /\ executes' \in [Offer -> Request \cup {None}]
      /\ \A p \in Offer : p # o => status'[p] = status[p] /\ executes'[p] = executes[p]
  BY <1>2, <1>3, <1>4, <1>5, <1>6 DEF RunnerTypeOK, TaskStatus
<1>8. RunnerTypeOK'
  BY <1>2, <1>3, <1>4, <1>7 DEF RunnerTypeOK, InGoodOrder
<1>9. QueuesOrdered'
  BY <1>2, <1>3, <1>4 DEF QueuesOrdered
<1>10. Connected'
  <2>1. \A s \in Runner : \A p \in OffersOf(s) : status'[p] # "none" => process[s] # "starting"
    BY <1>3, <1>4, <1>7 DEF Connected, OffersOf
  <2> QED
    BY <2>1, <1>2, <1>3, <1>4 DEF Connected
<1>11. Phases'
  <2>1. ASSUME NEW p \in Offer
        PROVE  Phase(p)'
    <3>1. AtBroker(p)' = AtBroker(p)
      BY <1>2 DEF AtBroker
    <3>2. CASE p # o
      BY <3>1, <3>2, <1>2, <1>3, <1>4, <1>7, OtherPhase
    <3>3. CASE p = o
      BY <3>1, <3>3, <1>3, <1>4, <1>6, <1>7
         DEF Phase, OfferIsFree, AcceptanceIsAlone, EndIsLast, SettingsAreCurrent,
             ExecutionIsCurrent, TimerHasTask
    <3> QED
      BY <3>2, <3>3
  <2> QED
    BY <2>1 DEF Phases
<1> QED
  BY <1>8, <1>9, <1>10, <1>11, RunnerFrame

(* A task ends: its offer is over, whatever is still on its way to it.     *)
LEMMA FinishTaskKeeps ==
  ASSUME Inv, NEW r \in Runner, NEW o \in OffersOf(r), status[o] # "none", UNCHANGED <<brokerVars, requesterVars>>,
         NEW messages \in {<<>>, <<Message("taskdone", o)>>, <<Message("taskerror", o)>>},
         messages = <<Message("taskdone", o)>> => status[o] # "waitingForSettings",
         FinishTask(r, o, messages, Taken), UNCHANGED <<process, canSendOffers>>,
         InGoodOrder(toRunner', BrokerMessage, ToRunnerOrder),
         \A s \in Runner : toRunner'[s] # <<>> => process[s] = "connected",
         AtRunner(o)' \subseteq AtRunner(o), SettingsOf(o)' \subseteq SettingsOf(o),
         \A p \in Offer : p # o => AtRunner(p)' = AtRunner(p) /\ SettingsOf(p)' = SettingsOf(p)
  PROVE  Inv'
<1> DEFINE st == [status EXCEPT ![o] = "none"]
<1>1. OfferSlots(r, st, messages, Taken) /\ executes' = [executes EXCEPT ![o] = None]
  BY DEF FinishTask
<1>2. /\ TypeOK /\ RunnerTypeOK /\ QueuesOrdered /\ Connected /\ Phases /\ o \in Offer
      /\ UNCHANGED <<knownRunners, pendingTaskOffers, accepting, tasks, taskTimer>>
  BY DEF Inv, TypeOK, brokerVars, OffersOf
<1>3. /\ o \notin ToSet(pendingTaskOffers) /\ "taskofferaccept" \notin AtRunner(o) /\ Phase(o)
      /\ AtBroker(o) \subseteq (IF status[o] = "waitingForSettings" THEN {"taskaccepted"} ELSE {})
      /\ "taskoffer" \notin AtBroker(o)
  BY <1>2 DEF Phases, Phase, OfferIsFree, AcceptanceIsAlone, EndIsLast
<1>4. /\ messages \in Seq(RunnerMessage) /\ Ordered(messages, ToBrokerOrder)
      /\ \A p : p # o => About(messages, p) = {}
      /\ About(messages, o) \subseteq {"taskdone", "taskerror"}
      /\ "taskdone" \in About(messages, o) => status[o] # "waitingForSettings"
  <2>1. CASE messages = <<>>
    BY <2>1, QueueEmpty
  <2>2. CASE messages # <<>>
    <3>1. PICK type \in {"taskdone", "taskerror"} :
            messages = <<Message(type, o)>> /\ (type = "taskdone" => status[o] # "waitingForSettings")
      BY <2>2
    <3>2. PICK m : m = Message(type, o)
      OBVIOUS
    <3>3. m \in RunnerMessage /\ m.type = type /\ \A p : Concerns(m, p) <=> p = o
      BY <3>2, <1>2, MessageSets DEF Message, Concerns
    <3>4. Ordered(<<m>>, ToBrokerOrder) /\ \A p : About(<<m>>, p) = IF p = o THEN {type} ELSE {}
      BY <3>3, QueueOne
    <3>5. messages = <<m>>
      BY <3>1, <3>2
    <3> QED
      BY <3>1, <3>3, <3>4, <3>5
  <2> QED
    BY <2>1, <2>2
<1>5. \A p \in OffersOf(r) : \A x \in AtBroker(p), y \in About(messages, p) : <<x, y>> \in ToBrokerOrder
  <2> SUFFICES ASSUME NEW x \in AtBroker(o), NEW y \in About(messages, o)
               PROVE  <<x, y>> \in ToBrokerOrder
    BY <1>4
  <2>1. x = "taskaccepted" /\ y = "taskerror"
    BY <1>3, <1>4
  <2> QED
    BY <2>1 DEF ToBrokerOrder
<1> HIDE DEF st
<1>6. \A p : About(messages, p) # {} => p \in OffersOf(r) /\ status[p] # "none"
  BY <1>4
<1>7. Offering(r, st, messages)
  BY <1>1, <1>2, <1>4, <1>5, <1>6, OfferSlotsDo
<1>8. /\ status' = st /\ openOffers' \in SUBSET Offer
      /\ InGoodOrder(toBroker', RunnerMessage, ToBrokerOrder)
      /\ AtBroker(o)' \subseteq AtBroker(o) \cup About(messages, o)
      /\ \A p \in Offer : p # o => \/ AtBroker(p)' \subseteq AtBroker(p)
                                   \/ AtBroker(p)' = {"taskoffer"} /\ p \notin Taken /\ status[p] = "none"
  BY <1>2, <1>4, <1>7 DEF Offering
<1>9. /\ status' \in [Offer -> TaskStatus \cup {"none"}] /\ status'[o] = "none"
      /\ executes' \in [Offer -> Request \cup {None}]
      /\ \A p \in Offer : p # o => status'[p] = status[p] /\ executes'[p] = executes[p]
  BY <1>1, <1>2, <1>8 DEF RunnerTypeOK, st
<1>10. RunnerTypeOK'
  BY <1>2, <1>8, <1>9 DEF RunnerTypeOK, InGoodOrder
<1>11. QueuesOrdered'
  BY <1>8 DEF QueuesOrdered
<1>12. Connected'
  <2>1. \A s \in Runner : \A p \in OffersOf(s) : status'[p] # "none" => process[s] # "starting"
    BY <1>2, <1>9 DEF Connected, OffersOf
  <2> QED
    BY <2>1, <1>2 DEF Connected
<1>13. Phases'
  <2>1. ASSUME NEW p \in Offer
        PROVE  Phase(p)'
    <3>1. CASE p # o
      BY <3>1, <1>2, <1>8, <1>9, OtherPhase
    <3>2. CASE p = o
      <4>1. "taskaccepted" \in AtBroker(o)' => "taskaccepted" \in AtBroker(o)
        BY <1>4, <1>8
      <4>2. "taskoffer" \notin AtBroker(o)'
        BY <1>3, <1>4, <1>8
      <4> QED
        BY <3>2, <4>1, <4>2, <1>2, <1>3, <1>9
           DEF Phase, OfferIsFree, AcceptanceIsAlone, EndIsLast, SettingsAreCurrent,
               ExecutionIsCurrent, TimerHasTask
    <3> QED
      BY <3>1, <3>2
  <2> QED
    BY <2>1 DEF Phases
<1> QED
  BY <1>10, <1>11, <1>12, <1>13, RunnerFrame


(* A task is aborted, or stays as it is, and sends nothing.                *)
LEMMA AbortKeeps ==
  ASSUME Inv, NEW r \in Runner, NEW o \in OffersOf(r), UNCHANGED <<brokerVars, requesterVars>>,
         \/ UNCHANGED status /\ status[o] \notin {"waitingForSettings", "running"}
         \/ /\ status[o] = "running"
            /\ \E end \in {"aborting:cancelled", "aborting:timeout"} : status' = [status EXCEPT ![o] = end],
         UNCHANGED <<openOffers, executes, toBroker, process, canSendOffers>>,
         InGoodOrder(toRunner', BrokerMessage, ToRunnerOrder),
         \A s \in Runner : toRunner'[s] # <<>> => process[s] = "connected",
         AtRunner(o)' \subseteq AtRunner(o), SettingsOf(o)' \subseteq SettingsOf(o),
         \A p \in Offer : p # o => AtRunner(p)' = AtRunner(p) /\ SettingsOf(p)' = SettingsOf(p)
  PROVE  Inv'
<1>1. /\ RunnerTypeOK /\ QueuesOrdered /\ Connected /\ Phases /\ o \in Offer
      /\ UNCHANGED <<knownRunners, pendingTaskOffers, accepting, tasks, taskTimer>>
  BY DEF Inv, TypeOK, brokerVars, OffersOf
<1>2. /\ status' \in [Offer -> TaskStatus \cup {"none"}]
      /\ \A p \in Offer : p # o => status'[p] = status[p]
      /\ status'[o] \notin {"waitingForSettings", "running"} /\ status[o] # "waitingForSettings"
      /\ status'[o] # status[o] => status[o] = "running"
      /\ \A p \in Offer : status'[p] # "none" => status[p] # "none"
  BY <1>1 DEF RunnerTypeOK, TaskStatus
<1>3. RunnerTypeOK'
  BY <1>1, <1>2 DEF RunnerTypeOK, InGoodOrder
<1>4. QueuesOrdered'
  BY <1>1 DEF QueuesOrdered
<1>5. Connected'
  <2>1. \A s \in Runner : \A p \in OffersOf(s) : p \in Offer
    BY DEF OffersOf
  <2> QED
    BY <2>1, <1>1, <1>2 DEF Connected
<1>6. Phases'
  <2>1. ASSUME NEW p \in Offer
        PROVE  Phase(p)'
    <3>1. AtBroker(p)' = AtBroker(p) /\ Phase(p)
      BY <1>1 DEF AtBroker, Phases
    <3>2. CASE p # o
      BY <3>1, <3>2, <1>1, <1>2, OtherPhase
    <3>3. CASE p = o
      BY <3>1, <3>3, <1>1, <1>2
         DEF Phase, OfferIsFree, AcceptanceIsAlone, EndIsLast, SettingsAreCurrent,
             ExecutionIsCurrent, TimerHasTask
    <3> QED
      BY <3>2, <3>3
  <2> QED
    BY <2>1 DEF Phases
<1> QED
  BY <1>3, <1>4, <1>5, <1>6, RunnerFrame

(* A cancellation arrives at the runner.                                   *)
LEMMA TaskCancelledKeeps ==
  ASSUME Inv, NEW r \in Runner, TaskCancelled(r, Taken), UNCHANGED <<brokerVars, requesterVars>>
  PROVE  Inv'
<1>1. PICK o : o = Head(toRunner[r]).offer
  OBVIOUS
<1>2. /\ Receives(r, "taskcancel") /\ Consume(r) /\ UNCHANGED <<process, canSendOffers>>
      /\ CASE status[o] = "waitingForSettings" -> FinishTask(r, o, <<>>, Taken)
           [] status[o] = "running" ->
                /\ status' = [status EXCEPT ![o] = "aborting:cancelled"]
                /\ UNCHANGED <<openOffers, executes, toBroker>>
           [] OTHER -> UNCHANGED <<status, openOffers, executes, toBroker>>
  BY <1>1 DEF TaskCancelled
<1>3. QueuesOrdered /\ Connected
  BY DEF Inv
<1>4. /\ o \in Offer /\ o[1] = r /\ "taskcancel" \in AtRunner(o)
      /\ InGoodOrder(toRunner', BrokerMessage, ToRunnerOrder)
      /\ \A s \in Runner : toRunner'[s] # <<>> => process[s] = "connected"
      /\ AtRunner(o)' \subseteq {"taskcancel"} /\ SettingsOf(o)' = {}
      /\ \A p \in Offer : p # o => AtRunner(p)' = AtRunner(p) /\ SettingsOf(p)' = SettingsOf(p)
  BY <1>1, <1>2, <1>3, RunnerTakes
<1>5. o \in OffersOf(r) /\ AtRunner(o)' \subseteq AtRunner(o) /\ SettingsOf(o)' \subseteq SettingsOf(o)
  BY <1>4 DEF OffersOf
<1>6. CASE status[o] = "waitingForSettings"
  <2>1. FinishTask(r, o, <<>>, Taken)
    BY <1>2, <1>6
  <2>2. <<>> # <<Message("taskdone", o)>> /\ status[o] # "none"
    BY <1>6
  <2> QED
    BY <2>1, <2>2, <1>2, <1>4, <1>5, FinishTaskKeeps
<1>7. CASE status[o] # "waitingForSettings"
  <2>1. /\ UNCHANGED <<openOffers, executes, toBroker, process, canSendOffers>>
        /\ \/ UNCHANGED status /\ status[o] \notin {"waitingForSettings", "running"}
           \/ /\ status[o] = "running"
              /\ \E end \in {"aborting:cancelled", "aborting:timeout"} : status' = [status EXCEPT ![o] = end]
    BY <1>2, <1>7
  <2> QED
    BY <2>1, <1>4, <1>5, AbortKeeps
<1> QED
  BY <1>6, <1>7

(* The runner's own events leave what is on its way to it.                 *)
LEMMA MailStays ==
  ASSUME Inv, UNCHANGED toRunner
  PROVE  /\ InGoodOrder(toRunner', BrokerMessage, ToRunnerOrder)
         /\ \A s \in Runner : toRunner'[s] # <<>> => process[s] = "connected"
         /\ \A p \in Offer : AtRunner(p)' = AtRunner(p) /\ SettingsOf(p)' = SettingsOf(p)
BY DEF Inv, QueuesOrdered, Connected, AtRunner, SettingsOf

(* The runner's timer of a task fires.                                     *)
LEMMA TaskTimedOutKeeps ==
  ASSUME Inv, NEW r \in Runner, NEW o, TaskTimedOut(r, o, Taken), UNCHANGED <<brokerVars, requesterVars>>
  PROVE  Inv'
<1>1. o \in OffersOf(r) /\ o \in Offer /\ UNCHANGED <<process, canSendOffers, toRunner>>
  BY DEF TaskTimedOut, OffersOf
<1>2. /\ InGoodOrder(toRunner', BrokerMessage, ToRunnerOrder)
      /\ \A s \in Runner : toRunner'[s] # <<>> => process[s] = "connected"
      /\ AtRunner(o)' \subseteq AtRunner(o) /\ SettingsOf(o)' \subseteq SettingsOf(o)
      /\ \A p \in Offer : p # o => AtRunner(p)' = AtRunner(p) /\ SettingsOf(p)' = SettingsOf(p)
  BY <1>1, MailStays
<1>3. CASE status[o] = "waitingForSettings"
  <2>1. FinishTask(r, o, <<Message("taskerror", o)>>, Taken)
    BY <1>3 DEF TaskTimedOut
  <2>2. <<Message("taskerror", o)>> # <<Message("taskdone", o)>> /\ status[o] # "none"
    BY <1>3 DEF Message
  <2> QED
    BY <2>1, <2>2, <1>1, <1>2, FinishTaskKeeps
<1>4. CASE status[o] # "waitingForSettings"
  <2>1. /\ status[o] = "running" /\ status' = [status EXCEPT ![o] = "aborting:timeout"]
        /\ UNCHANGED <<openOffers, executes, toBroker>>
    BY <1>4 DEF TaskTimedOut
  <2> QED
    BY <2>1, <1>1, <1>2, AbortKeeps
<1> QED
  BY <1>3, <1>4

(* The code of a task comes to its end.                                    *)
LEMMA TaskExecutedKeeps ==
  ASSUME Inv, NEW r \in Runner, NEW o, NEW type, TaskExecuted(r, o, type, Taken),
         UNCHANGED <<brokerVars, requesterVars>>
  PROVE  Inv'
<1>1. PICK messages : messages = IF status[o] = "aborting:cancelled" THEN <<>> ELSE <<Message(type, o)>>
  OBVIOUS
<1>2. /\ o \in OffersOf(r) /\ o \in Offer /\ status[o] \notin {"none", "waitingForSettings"}
      /\ messages \in {<<>>, <<Message("taskdone", o)>>, <<Message("taskerror", o)>>}
      /\ FinishTask(r, o, messages, Taken) /\ UNCHANGED <<process, canSendOffers, toRunner>>
  BY <1>1 DEF TaskExecuted, OffersOf
<1>3. /\ InGoodOrder(toRunner', BrokerMessage, ToRunnerOrder)
      /\ \A s \in Runner : toRunner'[s] # <<>> => process[s] = "connected"
      /\ AtRunner(o)' \subseteq AtRunner(o) /\ SettingsOf(o)' \subseteq SettingsOf(o)
      /\ \A p \in Offer : p # o => AtRunner(p)' = AtRunner(p) /\ SettingsOf(p)' = SettingsOf(p)
  BY <1>2, MailStays
<1> QED
  BY <1>2, <1>3, FinishTaskKeeps

(* A step of a runner                                                      *)
LEMMA RunnerStepKeeps ==
  ASSUME Inv, NEW r \in Runner, RunnerStep(r)
  PROVE  Inv'
<1>1. UNCHANGED <<brokerVars, requesterVars>>
  BY DEF RunnerStep
<1>2. CASE RunnerRegistered(r)
  BY <1>1, <1>2, RunnerRegisteredKeeps
<1>3. CASE SendOffers(r, Taken)
  BY <1>1, <1>3, SendOffersKeeps
<1>4. CASE OfferAccepted(r)
  BY <1>1, <1>4, OfferAcceptedKeeps
<1>5. CASE ReceivedSettings(r)
  BY <1>1, <1>5, ReceivedSettingsKeeps
<1>6. CASE TaskCancelled(r, Taken)
  BY <1>1, <1>6, TaskCancelledKeeps
<1>7. CASE StopTaskOffers(r)
  BY <1>1, <1>7, StopTaskOffersKeeps
<1>8. CASE ConnectionCloses(r)
  BY <1>1, <1>8, ConnectionClosesKeeps
<1>11. CASE ProcessEnds(r)
  BY <1>1, <1>11, ProcessEndsKeeps
<1>9. ASSUME NEW o \in Offer, TaskTimedOut(r, o, Taken)
      PROVE  Inv'
  BY <1>1, <1>9, TaskTimedOutKeeps
<1>10. ASSUME NEW o \in Offer, NEW type \in {"taskdone", "taskerror"}, TaskExecuted(r, o, type, Taken)
       PROVE  Inv'
  BY <1>1, <1>10, TaskExecutedKeeps
<1> QED
  BY <1>2, <1>3, <1>4, <1>5, <1>6, <1>7, <1>8, <1>9, <1>10, <1>11 DEF RunnerStep

(* The broker handles a runner's message.                                  *)
LEMMA BrokerReceivesKeeps ==
  ASSUME Inv, NEW r \in Runner, BrokerReceivesFrom(r)
  PROVE  Inv'
BY TaskOfferedKeeps, HandleRunnerAcceptKeeps, HandleRunnerRejectKeeps, TaskHandlerKeeps
   DEF BrokerReceivesFrom

-----------------------------------------------------------------------------
(* The invariant, and what follows from it                                 *)

(* Every step keeps the invariant.                                         *)
LEMMA NextKeeps == Inv /\ [Next]_vars => Inv'
<1> SUFFICES ASSUME Inv, [Next]_vars PROVE Inv'
  OBVIOUS
<1>1. ASSUME NEW r \in Runner,
             RunnerStep(r) \/ BrokerReceivesFrom(r) \/ RegisterRunner(r) \/ DeregisterRunner(r)
      PROVE  Inv'
  BY <1>1, RunnerStepKeeps, BrokerReceivesKeeps, RegisterRunnerKeeps, DeregisterRunnerKeeps
<1>2. ASSUME NEW q \in Request, StartTask(q) \/ HandleRequestTimeout(q) \/ CancelTask(q)
      PROVE  Inv'
  BY <1>2, StartTaskKeeps, HandleRequestTimeoutKeeps, CancelTaskKeeps
<1>3. ASSUME NEW o \in Offer, AcceptTimeout(o) \/ HandleTaskTimeout(o)
      PROVE  Inv'
  BY <1>3, AcceptTimeoutKeeps, HandleTaskTimeoutKeeps
<1>4. CASE UNCHANGED vars
  <2>1. /\ UNCHANGED <<brokerVars, requesterVars>>
        /\ UNCHANGED <<process, canSendOffers, openOffers, status, executes, toRunner, toBroker>>
    BY <1>4 DEF vars, runnerVars
  <2>2. RunnerTypeOK /\ QueuesOrdered /\ Connected /\ Phases /\ UNCHANGED knownRunners
    BY <2>1 DEF Inv, TypeOK, brokerVars
  <2>3. RunnerTypeOK' /\ QueuesOrdered' /\ Connected'
    BY <2>1, <2>2 DEF RunnerTypeOK, QueuesOrdered, Connected
  <2>4. Phases'
    <3>1. ASSUME NEW o \in Offer
          PROVE  Phase(o)'
      <4>1. AtBroker(o)' = AtBroker(o) /\ AtRunner(o)' = AtRunner(o) /\ SettingsOf(o)' = SettingsOf(o)
        BY <2>1 DEF AtBroker, AtRunner, SettingsOf
      <4> QED
        BY <4>1, <2>1, <2>2, OtherPhase
    <3> QED
      BY <3>1 DEF Phases
  <2> QED
    BY <2>1, <2>3, <2>4, RunnerFrame
<1> QED
  BY <1>1, <1>2, <1>3, <1>4 DEF Next

(* The protocol between broker and runners keeps the invariant.            *)
THEOREM ProtocolInvariant == Spec => []Inv
<1>1. Init => Inv
  BY InitHolds
<1>2. Inv /\ [Next]_vars => Inv'
  BY NextKeeps
<1> QED
  BY <1>1, <1>2, PTL DEF Spec

(* The variables of broker, runners and requesters keep their types.       *)
THEOREM TypeCorrect == Spec => []TypeOK
<1>1. Inv => TypeOK
  BY DEF Inv
<1> QED
  BY <1>1, ProtocolInvariant, PTL

(* The broker's list of requests and the requesters that wait are the      *)
(* same: timeout, cancellation and acceptance remove a request on both     *)
(* sides.                                                                  *)
THEOREM PendingRequested == Spec => []PendingIsRequested
<1>1. Inv => PendingIsRequested
  BY DEF Inv
<1> QED
  BY <1>1, ProtocolInvariant, PTL

(* A request is matched with one offer at a time, and a request that has   *)
(* the flag acceptInProgress in the list is really being accepted, for     *)
(* any number of runners.                                                  *)
THEOREM AcceptedOnce == Spec => []OneAcceptance
<1>1. Inv => OneAcceptance
  BY DEF Inv
<1> QED
  BY <1>1, ProtocolInvariant, PTL

(* While startTask waits for a task, the broker has that task and its      *)
(* timer runs, whatever crashes or is lost.                                *)
THEOREM RunningWatched == Spec => []RunningIsWatched
<1>1. Inv => RunningIsWatched
  BY DEF Inv
<1> QED
  BY <1>1, ProtocolInvariant, PTL

(* In external mode no connected runner executes code that the broker has  *)
(* no task for and sends no cancellation for, for any runners and requests *)
(* and whatever connection breaks.                                         *)
THEOREM NoOrphans == Spec => []NoOrphanExecution
<1>1. Inv => NoOrphanExecution
  <2> SUFFICES ASSUME Inv, External, NEW o \in Offer, status[o] = "running", process[o[1]] = "connected",
                      tasks[o] # executes[o]
               PROVE  Message("taskcancel", o) \in ToSet(toRunner[o[1]])
    BY DEF NoOrphanExecution
  <2>1. "taskcancel" \in AtRunner(o)
    BY DEF Inv, Phases, Phase, ExecutionIsCurrent
  <2> DEFINE s == toRunner[o[1]]
  <2>2. PICK i \in 1..Len(s) : Concerns(s[i], o) /\ s[i].type = "taskcancel"
    BY <2>1, AboutIs DEF AtRunner, At
  <2>3. s \in Seq(BrokerMessage)
    BY OfferOf DEF Inv, QueuesOrdered, InGoodOrder
  <2>4. s[i] \in BrokerMessage /\ s[i].type = "taskcancel" /\ s[i].offer = o
    BY <2>2, <2>3 DEF Concerns
  <2>5. s[i] = Message("taskcancel", o)
    BY <2>4 DEF BrokerMessage, Message
  <2> QED
    BY <2>2, <2>5 DEF ToSet
<1> QED
  BY <1>1, ProtocolInvariant, PTL

(* Settings that arrive at a runner never find a task that runs already.   *)
THEOREM SettingsFindTask == Spec => []SettingsFindTaskWaiting
<1>1. Inv => SettingsFindTaskWaiting
  <2> SUFFICES ASSUME Inv, NEW r \in Runner, Receives(r, "tasksettings")
               PROVE  status[Head(toRunner[r]).offer] \in {"waitingForSettings", "none"}
    BY DEF SettingsFindTaskWaiting
  <2>1. PICK m : m = Head(toRunner[r])
    OBVIOUS
  <2>2. toRunner[r] # <<>> /\ m.type = "tasksettings" /\ InGoodOrder(toRunner, BrokerMessage, ToRunnerOrder)
    BY <2>1 DEF Receives, Inv, QueuesOrdered
  <2>3. PICK rest : rest = [toRunner EXCEPT ![r] = Tail(@)]
    OBVIOUS
  <2>4. TakenFrom(toRunner, r, rest, BrokerMessage, ToRunnerOrder)
    BY <2>2, <2>3, QueuesTake
  <2>5. m.offer \in Offer /\ m.request \in SettingsOf(m.offer)
    BY <2>1, <2>2, <2>4 DEF TakenFrom, SettingsOf
  <2> QED
    BY <2>1, <2>5 DEF Inv, Phases, Phase, SettingsAreCurrent
<1> QED
  BY <1>1, ProtocolInvariant, PTL

-----------------------------------------------------------------------------
(* The capacity of a runner: no more than the types of openOffers and      *)
(* status is needed of the states.                                         *)

Statuses == [Offer -> TaskStatus \cup {"none"}]

(* What the capacity is about has its types; no more is needed.            *)
OffersTyped == openOffers \subseteq Offer /\ status \in Statuses

(* The capacity, of offers and statuses that are not those of the state.   *)
Fits(open, st) ==
  \A r \in Runner :
    Cardinality(open \cap OffersOf(r)) + Cardinality(RunningTasks(r, st)) <= MaxConcurrency

CapacityInv == OffersTyped /\ OffersFitCapacity

-----------------------------------------------------------------------------
(* Counting offers                                                         *)

LEMMA OffersFinite ==
  ASSUME NEW r \in Runner, NEW S \in SUBSET OffersOf(r)
  PROVE  IsFiniteSet(S) /\ Cardinality(S) \in Nat
<1>1. IsFiniteSet(1..Ids)
  BY FS_Interval, RunnerAssumption DEF RunnerAssumption
<1>2. IsFiniteSet(Offer)
  BY <1>1, FS_Product, RunnerAssumption DEF Offer, RunnerAssumption
<1>3. S \in SUBSET Offer
  BY DEF OffersOf
<1> QED
  BY <1>2, <1>3, FS_Subset, FS_CardinalityType

LEMMA FewerOffers ==
  ASSUME NEW r \in Runner, NEW T \in SUBSET OffersOf(r), NEW S \in SUBSET T
  PROVE  Cardinality(S) <= Cardinality(T)
BY OffersFinite, FS_Subset

(* The offers that sendOffers takes when n slots are free.                 *)
Below(fresh, o) == {p \in fresh : p[2] < o[2]}

First(fresh, n) == {o \in fresh : Cardinality(Below(fresh, o)) < n}

(* Of offers of one runner, no more than n have fewer than n below them.   *)
LEMMA FirstOnes ==
  ASSUME NEW r \in Runner, NEW fresh \in SUBSET OffersOf(r), NEW n \in Nat
  PROVE  Cardinality(First(fresh, n)) <= n
<1> DEFINE below(o) == Below(fresh, o)
           first    == First(fresh, n)
           rank     == [o \in first |-> Cardinality(below(o))]
<1>1. \A o \in fresh : IsFiniteSet(below(o)) /\ Cardinality(below(o)) \in Nat
  BY OffersFinite DEF Below
<1>2. CASE n = 0
  <2>1. first = {}
    BY <1>1, <1>2 DEF First
  <2> QED
    BY <2>1, <1>2, FS_EmptySet
<1>3. CASE n > 0
  <2>1. rank \in [first -> 0..(n - 1)]
    <3>1. \A o \in first : Cardinality(below(o)) \in Nat /\ Cardinality(below(o)) < n
      BY <1>1 DEF First
    <3> HIDE DEF first, below
    <3>2. \A o \in first : Cardinality(below(o)) \in 0..(n - 1)
      BY <3>1, <1>3
    <3> QED
      BY <3>2
  <2>2. \A o, q \in first : o[2] < q[2] => Cardinality(below(o)) < Cardinality(below(q))
    <3> SUFFICES ASSUME NEW o \in first, NEW q \in first, o[2] < q[2]
                 PROVE  Cardinality(below(o)) < Cardinality(below(q))
      OBVIOUS
    <3>1. \A p \in fresh : p[2] \in Nat
      BY RunnerAssumption DEF OffersOf, Offer, RunnerAssumption
    <3>2. o \in fresh /\ q \in fresh
      BY DEF First
    <3>3. below(o) \in SUBSET below(q) /\ o \in below(q) /\ o \notin below(o)
      BY <3>1, <3>2 DEF Below
    <3>4. Cardinality(below(o)) <= Cardinality(below(q)) /\ Cardinality(below(q)) # Cardinality(below(o))
      BY <3>2, <3>3, <1>1, FS_Subset
    <3> QED
      BY <3>4, <3>2, <1>1
  <2>3. ASSUME NEW o \in first, NEW q \in first, rank[o] = rank[q]
        PROVE  o = q
    <3>1. o[2] \in Nat /\ q[2] \in Nat /\ o \in Offer /\ q \in Offer /\ o[1] = q[1]
      BY RunnerAssumption DEF First, OffersOf, Offer, RunnerAssumption
    <3>2. /\ Cardinality(below(o)) = Cardinality(below(q))
          /\ Cardinality(below(o)) \in Nat /\ Cardinality(below(q)) \in Nat
      BY <2>3, <1>1 DEF First
    <3>3. o[2] = q[2]
      BY <3>1, <3>2, <2>2
    <3> QED
      BY <3>1, <3>3 DEF Offer
  <2>4. rank \in Injection(first, 0..(n - 1))
    <3> HIDE DEF rank, first
    <3> QED
      BY <2>1, <2>3 DEF Injection, IsInjective
  <2>5. IsFiniteSet(0..(n - 1)) /\ Cardinality(0..(n - 1)) = n
    BY <1>3, FS_Interval
  <2> QED
    BY <2>4, <2>5, <1>3, FS_Injection
<1> QED
  BY <1>2, <1>3

(* Fewer open offers and fewer tasks fit.                                  *)
LEMMA FewerFit ==
  ASSUME NEW open \in SUBSET Offer, NEW st \in Statuses, Fits(open, st),
         NEW less, less \subseteq open,
         NEW fewer, \A o \in Offer : st[o] = "none" => fewer[o] = "none"
  PROVE  Fits(less, fewer)
<1> SUFFICES ASSUME NEW r \in Runner
             PROVE  Cardinality(less \cap OffersOf(r)) + Cardinality(RunningTasks(r, fewer))
                      <= MaxConcurrency
  BY DEF Fits
<1>1. less \cap OffersOf(r) \in SUBSET (open \cap OffersOf(r))
      /\ RunningTasks(r, fewer) \in SUBSET RunningTasks(r, st)
  BY DEF RunningTasks, OffersOf
<1>2. open \cap OffersOf(r) \in SUBSET OffersOf(r) /\ RunningTasks(r, st) \in SUBSET OffersOf(r)
  BY DEF RunningTasks
<1>3. Cardinality(less \cap OffersOf(r)) <= Cardinality(open \cap OffersOf(r))
      /\ Cardinality(RunningTasks(r, fewer)) <= Cardinality(RunningTasks(r, st))
  BY <1>1, <1>2, FewerOffers
<1>4. /\ Cardinality(less \cap OffersOf(r)) \in Nat /\ Cardinality(open \cap OffersOf(r)) \in Nat
      /\ Cardinality(RunningTasks(r, fewer)) \in Nat /\ Cardinality(RunningTasks(r, st)) \in Nat
  BY <1>1, <1>2, OffersFinite
<1>5. Cardinality(open \cap OffersOf(r)) + Cardinality(RunningTasks(r, st)) <= MaxConcurrency
  BY DEF Fits
<1> QED
  BY <1>3, <1>4, <1>5, RunnerAssumption DEF RunnerAssumption

(* sendOffers fills the free slots and no more.                            *)
LEMMA OfferSlotsFits ==
  ASSUME OffersTyped, NEW r \in Runner, NEW st \in Statuses, Fits(openOffers, st),
         NEW messages, NEW taken, OfferSlots(r, st, messages, taken)
  PROVE  OffersTyped' /\ Fits(openOffers', status')
<1>1. PICK stale \in SUBSET (openOffers \cap OffersOf(r)) :
        LET kept  == openOffers \ stale
            fresh == {o \in OffersOf(r) : o \notin openOffers \cup taken /\ status[o] = "none"}
            new   == {o \in fresh : canSendOffers[r]
                        /\ Cardinality({p \in fresh : p[2] < o[2]}) < OffersToSend(r, kept, st)}
        IN  openOffers' = kept \cup new /\ status' = st
  BY DEF OfferSlots
<1> DEFINE kept  == openOffers \ stale
           fresh == {o \in OffersOf(r) : o \notin openOffers \cup taken /\ status[o] = "none"}
           few   == OffersToSend(r, kept, st)
           first == First(fresh, few)
           new   == {o \in fresh : canSendOffers[r]
                       /\ Cardinality({p \in fresh : p[2] < o[2]}) < few}
<1>2. openOffers' = kept \cup new /\ status' = st
  BY <1>1
<1>3. kept \in SUBSET Offer /\ new \in SUBSET OffersOf(r) /\ new \in SUBSET first
      /\ first \in SUBSET OffersOf(r) /\ fresh \in SUBSET OffersOf(r)
  BY DEF OffersTyped, First, Below
<1>4. OffersTyped'
  BY <1>2, <1>3 DEF OffersTyped, Statuses, OffersOf
<1>5. Fits(kept, st)
  BY FewerFit DEF OffersTyped
<1>6. ASSUME NEW s \in Runner
      PROVE  Cardinality((kept \cup new) \cap OffersOf(s)) + Cardinality(RunningTasks(s, st))
               <= MaxConcurrency
  <2>1. Cardinality(kept \cap OffersOf(s)) + Cardinality(RunningTasks(s, st)) <= MaxConcurrency
    BY <1>5 DEF Fits
  <2>2. CASE s # r
    <3>1. (kept \cup new) \cap OffersOf(s) = kept \cap OffersOf(s)
      BY <1>3, <2>2 DEF OffersOf
    <3> QED
      BY <3>1, <2>1
  <2>3. CASE s = r
    <3>1. kept \cap OffersOf(r) \in SUBSET OffersOf(r) /\ RunningTasks(r, st) \in SUBSET OffersOf(r)
      BY DEF RunningTasks
    <3>2. /\ IsFiniteSet(kept \cap OffersOf(r)) /\ Cardinality(kept \cap OffersOf(r)) \in Nat
          /\ Cardinality(RunningTasks(r, st)) \in Nat
          /\ IsFiniteSet(new) /\ Cardinality(new) \in Nat
      BY <3>1, <1>3, OffersFinite
    <3>3. few = MaxConcurrency - Cardinality(kept \cap OffersOf(r)) - Cardinality(RunningTasks(r, st))
      BY DEF OffersToSend
    <3>4. few \in Nat
      BY <3>2, <3>3, <2>1, <2>3, RunnerAssumption DEF RunnerAssumption
    <3>5. Cardinality(first) <= few
      BY <3>4, <1>3, FirstOnes
    <3>6. Cardinality(new) <= Cardinality(first) /\ Cardinality(first) \in Nat
      BY <1>3, FewerOffers, OffersFinite
    <3>7. (kept \cup new) \cap OffersOf(r) = (kept \cap OffersOf(r)) \cup new
      BY <1>3
    <3>8. (kept \cap OffersOf(r)) \cap new \in SUBSET OffersOf(r)
      OBVIOUS
    <3>9. Cardinality((kept \cap OffersOf(r)) \cap new) \in Nat
      BY <3>8, OffersFinite
    <3> HIDE DEF kept, new, few, first
    <3>10. /\ Cardinality((kept \cap OffersOf(r)) \cup new)
                = Cardinality(kept \cap OffersOf(r)) + Cardinality(new)
                    - Cardinality((kept \cap OffersOf(r)) \cap new)
           /\ IsFiniteSet((kept \cap OffersOf(r)) \cup new)
      BY <3>2, FS_Union
    <3>11. Cardinality((kept \cap OffersOf(r)) \cup new) \in Nat
      BY <3>10, FS_CardinalityType
    <3>12. Cardinality((kept \cup new) \cap OffersOf(r)) <= Cardinality(kept \cap OffersOf(r)) + few
      <4>1. Cardinality(new) <= few
        BY <3>2, <3>4, <3>5, <3>6
      <4>2. Cardinality((kept \cap OffersOf(r)) \cup new) <= Cardinality(kept \cap OffersOf(r)) + few
        BY <4>1, <3>2, <3>4, <3>9, <3>10, <3>11
      <4> QED
        BY <4>2, <3>7
    <3>13. MaxConcurrency \in Int /\ Cardinality((kept \cup new) \cap OffersOf(r)) \in Nat
      BY <3>7, <3>11, RunnerAssumption DEF RunnerAssumption
    <3>14. Cardinality((kept \cup new) \cap OffersOf(r)) + Cardinality(RunningTasks(r, st)) <= MaxConcurrency
      BY <3>2, <3>3, <3>12, <3>13
    <3> QED
      BY <2>3, <3>14
  <2> QED
    BY <2>2, <2>3
<1> QED
  BY <1>2, <1>4, <1>6 DEF Fits

-----------------------------------------------------------------------------
(* The steps of a runner                                                   *)

(* finishTask frees a slot and fills what is free.                         *)
LEMMA FinishTaskFits ==
  ASSUME CapacityInv, NEW r \in Runner, NEW o, NEW messages, NEW taken,
         FinishTask(r, o, messages, taken)
  PROVE  CapacityInv'
<1> DEFINE st == [status EXCEPT ![o] = "none"]
<1>1. st \in Statuses /\ \A p \in Offer : status[p] = "none" => st[p] = "none"
  BY DEF CapacityInv, OffersTyped, Statuses
<1>2. Fits(openOffers, status)
  BY DEF CapacityInv, OffersFitCapacity, Fits
<1>3. Fits(openOffers, st)
  BY <1>1, <1>2, FewerFit, ZenonT(60) DEF CapacityInv, OffersTyped
<1>4. OfferSlots(r, st, messages, taken)
  BY DEF FinishTask
<1> HIDE DEF st
<1>5. OffersTyped' /\ Fits(openOffers', status')
  BY <1>1, <1>3, <1>4, OfferSlotsFits DEF CapacityInv
<1> QED
  BY <1>5 DEF CapacityInv, OffersFitCapacity, Fits

(* A step that opens no offer and begins no task.                          *)
LEMMA NothingTaken ==
  ASSUME CapacityInv, openOffers' \subseteq openOffers, status' \in Statuses,
         \A o \in Offer : status[o] = "none" => status'[o] = "none"
  PROVE  CapacityInv'
<1>1. Fits(openOffers, status)
  BY DEF CapacityInv, OffersFitCapacity, Fits
<1>2. Fits(openOffers', status')
  BY <1>1, FewerFit DEF CapacityInv, OffersTyped
<1> QED
  BY <1>2 DEF CapacityInv, OffersTyped, OffersFitCapacity, Fits

(* An offer that becomes a task keeps its slot.                            *)
LEMMA OfferAcceptedFits ==
  ASSUME CapacityInv, NEW r \in Runner, OfferAccepted(r)
  PROVE  CapacityInv'
<1> DEFINE o == Head(toRunner[r]).offer
           accepts == HasOpenTaskSlots(r) /\ o \in openOffers
<1>1. CASE ~accepts
  BY <1>1, NothingTaken DEF OfferAccepted, CapacityInv, OffersTyped, Statuses
<1>2. CASE accepts
  <2>1. o \in Offer /\ o \in openOffers
    BY <1>2 DEF CapacityInv, OffersTyped
  <2>2. openOffers' = openOffers \ {o} /\ status' = [status EXCEPT ![o] = "waitingForSettings"]
    BY <1>2 DEF OfferAccepted
  <2> HIDE DEF o, accepts
  <2>3. OffersTyped'
    BY <2>1, <2>2 DEF CapacityInv, OffersTyped, Statuses, TaskStatus
  <2>4. ASSUME NEW s \in Runner
        PROVE  Cardinality(openOffers' \cap OffersOf(s)) + Cardinality(RunningTasks(s, status'))
                 <= MaxConcurrency
    <3> DEFINE open == openOffers \cap OffersOf(s)
               busy == RunningTasks(s, status)
    <3>1. open \in SUBSET OffersOf(s) /\ busy \in SUBSET OffersOf(s)
      BY DEF RunningTasks
    <3>2. /\ IsFiniteSet(open) /\ Cardinality(open) \in Nat
          /\ IsFiniteSet(busy) /\ Cardinality(busy) \in Nat
      BY <3>1, OffersFinite
    <3>3. Cardinality(open) + Cardinality(busy) <= MaxConcurrency
      BY DEF CapacityInv, OffersFitCapacity
    <3>4. CASE o \notin OffersOf(s)
      <4>1. openOffers' \cap OffersOf(s) = open /\ RunningTasks(s, status') = busy
        BY <2>1, <2>2, <3>4 DEF RunningTasks, OffersOf, CapacityInv, OffersTyped, Statuses
      <4> QED
        BY <4>1, <3>3
    <3>5. CASE o \in OffersOf(s)
      <4>1. openOffers' \cap OffersOf(s) = open \ {o} /\ RunningTasks(s, status') = busy \cup {o}
        BY <2>1, <2>2, <3>5 DEF RunningTasks, OffersOf, CapacityInv, OffersTyped, Statuses
      <4>2. o \in open
        BY <2>1, <3>5
      <4> HIDE DEF open, busy
      <4>3. Cardinality(open \ {o}) = Cardinality(open) - 1
        BY <3>2, <4>2, FS_RemoveElement
      <4>4. Cardinality(busy \cup {o}) \in {Cardinality(busy), Cardinality(busy) + 1}
        BY <3>2, FS_AddElement
      <4>5. MaxConcurrency \in Nat
        BY RunnerAssumption DEF RunnerAssumption
      <4>6. Cardinality(open \ {o}) + Cardinality(busy \cup {o}) <= MaxConcurrency
        BY <3>2, <3>3, <4>3, <4>4, <4>5
      <4> QED
        BY <4>1, <4>6
    <3> QED
      BY <3>4, <3>5
  <2> QED
    BY <2>3, <2>4 DEF CapacityInv, OffersFitCapacity
<1> QED
  BY <1>1, <1>2

(* A task that waits ends, one that runs is aborted, or nothing happens.   *)
LEMMA TaskCancelledFits ==
  ASSUME CapacityInv, NEW r \in Runner, NEW taken, TaskCancelled(r, taken)
  PROVE  CapacityInv'
<1> DEFINE o == Head(toRunner[r]).offer
<1>1. CASE status[o] = "waitingForSettings"
  <2>1. FinishTask(r, o, <<>>, taken)
    BY <1>1 DEF TaskCancelled
  <2> QED
    BY <2>1, FinishTaskFits
<1>2. CASE status[o] = "running"
  <2>1. openOffers' = openOffers /\ status' = [status EXCEPT ![o] = "aborting:cancelled"]
    BY <1>2 DEF TaskCancelled
  <2> HIDE DEF o
  <2>2. status' \in Statuses /\ \A p \in Offer : status[p] = "none" => status'[p] = "none"
    BY <1>2, <2>1 DEF CapacityInv, OffersTyped, Statuses, TaskStatus
  <2> QED
    BY <2>1, <2>2, NothingTaken
<1>3. CASE status[o] \notin {"waitingForSettings", "running"}
  <2>1. openOffers' = openOffers /\ status' = status
    BY <1>3 DEF TaskCancelled
  <2> QED
    BY <2>1, NothingTaken DEF CapacityInv, OffersTyped
<1> QED
  BY <1>1, <1>2, <1>3

LEMMA TaskTimedOutFits ==
  ASSUME CapacityInv, NEW r \in Runner, NEW o \in Offer, NEW taken, TaskTimedOut(r, o, taken)
  PROVE  CapacityInv'
<1>1. CASE status[o] = "waitingForSettings"
  <2>1. FinishTask(r, o, <<Message("taskerror", o)>>, taken)
    BY <1>1 DEF TaskTimedOut
  <2> QED
    BY <2>1, FinishTaskFits
<1>2. CASE status[o] # "waitingForSettings"
  <2>1. /\ status[o] = "running" /\ openOffers' = openOffers
        /\ status' = [status EXCEPT ![o] = "aborting:timeout"]
    BY <1>2 DEF TaskTimedOut
  <2>2. status' \in Statuses /\ \A p \in Offer : status[p] = "none" => status'[p] = "none"
    BY <2>1 DEF CapacityInv, OffersTyped, Statuses, TaskStatus
  <2> QED
    BY <2>1, <2>2, NothingTaken
<1> QED
  BY <1>1, <1>2

(* Every step of a runner, whatever the broker has.                        *)
LEMMA RunnerStepFits ==
  ASSUME CapacityInv, NEW r \in Runner, RunnerStep(r)
  PROVE  CapacityInv'
<1>1. CASE RunnerRegistered(r) \/ StopTaskOffers(r) \/ ConnectionCloses(r)
  BY <1>1, NothingTaken DEF RunnerRegistered, StopTaskOffers, ConnectionCloses, CapacityInv, OffersTyped
<1>2. CASE SendOffers(r, Taken)
  <2>1. OfferSlots(r, status, <<>>, Taken) /\ Fits(openOffers, status)
    BY <1>2 DEF SendOffers, CapacityInv, OffersFitCapacity, Fits
  <2>2. OffersTyped' /\ Fits(openOffers', status')
    BY <2>1, OfferSlotsFits DEF CapacityInv, OffersTyped
  <2> QED
    BY <2>2 DEF CapacityInv, OffersFitCapacity, Fits
<1>3. CASE OfferAccepted(r)
  BY <1>3, OfferAcceptedFits
<1>4. CASE ReceivedSettings(r)
  <2> DEFINE o == Head(toRunner[r]).offer
  <2>1. openOffers' = openOffers
        /\ status' = IF status[o] = "waitingForSettings" THEN [status EXCEPT ![o] = "running"] ELSE status
    BY <1>4 DEF ReceivedSettings
  <2> HIDE DEF o
  <2>2. status' \in Statuses /\ \A p \in Offer : status[p] = "none" => status'[p] = "none"
    BY <2>1 DEF CapacityInv, OffersTyped, Statuses, TaskStatus
  <2> QED
    BY <2>1, <2>2, NothingTaken
<1>5. CASE TaskCancelled(r, Taken)
  BY <1>5, TaskCancelledFits
<1>6. CASE ProcessEnds(r)
  <2>1. openOffers' \subseteq openOffers
        /\ status' = [o \in Offer |-> IF o[1] = r THEN "none" ELSE status[o]]
    BY <1>6 DEF ProcessEnds
  <2>2. status' \in Statuses /\ \A p \in Offer : status[p] = "none" => status'[p] = "none"
    BY <2>1 DEF CapacityInv, OffersTyped, Statuses
  <2> QED
    BY <2>1, <2>2, NothingTaken
<1>7. ASSUME NEW o \in Offer, TaskTimedOut(r, o, Taken)
      PROVE  CapacityInv'
  BY <1>7, TaskTimedOutFits
<1>8. ASSUME NEW o \in Offer, NEW type \in {"taskdone", "taskerror"}, TaskExecuted(r, o, type, Taken)
      PROVE  CapacityInv'
  BY <1>8, FinishTaskFits DEF TaskExecuted
<1> QED
  BY <1>1, <1>2, <1>3, <1>4, <1>5, <1>6, <1>7, <1>8 DEF RunnerStep

-----------------------------------------------------------------------------

(* task-runner.ts, sendOffers and offerAccepted: what a runner offers and  *)
(* what it runs never exceed its capacity together, however offers expire, *)
(* are accepted late, or tasks end while others begin.                     *)
THEOREM CapacityKept == Spec => []OffersFitCapacity
<1>1. Init => CapacityInv
  <2> SUFFICES ASSUME Init PROVE CapacityInv
    OBVIOUS
  <2>1. OffersTyped
    BY DEF Init, RunnerInit, OffersTyped, Statuses
  <2>2. \A r \in Runner : openOffers \cap OffersOf(r) = {} /\ RunningTasks(r, status) = {}
    BY DEF Init, RunnerInit, RunningTasks, OffersOf
  <2> QED
    BY <2>1, <2>2, FS_EmptySet, RunnerAssumption DEF CapacityInv, OffersFitCapacity, RunnerAssumption
<1>2. CapacityInv /\ [Next]_vars => CapacityInv'
  <2> SUFFICES ASSUME CapacityInv, [Next]_vars PROVE CapacityInv'
    OBVIOUS
  <2>1. ASSUME UNCHANGED <<openOffers, status>> PROVE CapacityInv'
    BY <2>1, NothingTaken DEF CapacityInv, OffersTyped
  <2>2. ASSUME NEW r \in Runner, BrokerReceivesFrom(r)
        PROVE  UNCHANGED <<openOffers, status>>
    BY <2>2 DEF BrokerReceivesFrom, TaskOffered, HandleRunnerAccept, HandleRunnerReject, TaskHandler
  <2>3. ASSUME NEW r \in Runner, RegisterRunner(r) \/ DeregisterRunner(r)
        PROVE  UNCHANGED <<openOffers, status>>
    BY <2>3 DEF RegisterRunner, DeregisterRunner
  <2>4. ASSUME NEW q \in Request, StartTask(q) \/ HandleRequestTimeout(q) \/ CancelTask(q)
        PROVE  UNCHANGED <<openOffers, status>>
    BY <2>4 DEF StartTask, HandleRequestTimeout, CancelTask, runnerVars
  <2>5. ASSUME NEW o \in Offer, AcceptTimeout(o) \/ HandleTaskTimeout(o)
        PROVE  UNCHANGED <<openOffers, status>>
    BY <2>5 DEF AcceptTimeout, HandleTaskTimeout, runnerVars
  <2>6. CASE UNCHANGED vars
    BY <2>1, <2>6 DEF vars, runnerVars
  <2> QED
    BY <2>1, <2>2, <2>3, <2>4, <2>5, <2>6, RunnerStepFits DEF Next
<1> QED
  BY <1>1, <1>2, PTL DEF Spec, CapacityInv
=============================================================================
