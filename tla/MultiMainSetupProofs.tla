------------------------ MODULE MultiMainSetupProofs ------------------------
(***************************************************************************)
(* Leadership is exclusive, for any hosts, ids and times, if the key lives *)
(* longer than a claim, a late interval and a renewal take.                *)
(***************************************************************************)
EXTENDS MultiMainSetup, TLAPS

(* The lease outlives a claim at startup (Latency), the time to the next   *)
(* check (Interval + Latency) and that check (Latency). The defaults of    *)
(* ten and three seconds leave a check two seconds.                        *)
Prompt == Interval + 3 * Latency < Ttl

(* A process that runs has been started, one that does not run checks      *)
(* nothing.                                                                *)
Started ==
  \A i \in Instance :
    IF process[i] = "down" THEN check[i] = "none" ELSE starts[i] >= 1

(* What an instance is about to do fits its role, and is not late.         *)
Orderly(i) ==
  /\ role[i] = "unset" => check[i] \in {"start", "set", "notset"}
  /\ check[i] = "start" => role[i] = "unset"
  /\ role[i] = "leader" => check[i] \in {"none", "own"}
  /\ check[i] # "none" => since[i] <= Latency

(* The key of a leader, or of one that is about to become it, lasts until  *)
(* the next renewal.                                                       *)
Lease(i) ==
  /\ role[i] = "leader" =>
       /\ key = HostId(i)
       /\ check[i] = "none" => ttl + since[i] > Interval + 2 * Latency
       /\ check[i] = "own" => ttl + since[i] > Latency
  /\ check[i] = "set" =>
       /\ key = HostId(i)
       /\ role[i] = "unset" => ttl + since[i] > Interval + 3 * Latency
       /\ role[i] # "unset" => ttl + since[i] > Interval + 2 * Latency

LeaseInv == \A i \in Instance : process[i] = "up" => Orderly(i) /\ Lease(i)

-----------------------------------------------------------------------------

LEMMA HostIdsDiffer ==
  ASSUME NEW i \in Instance, NEW j \in Instance, i # j
  PROVE  HostId(i) # HostId(j)
BY DEF HostId

LEMMA HostIdIsId ==
  ASSUME TypeOK, Started, NEW i \in Instance, process[i] # "down"
  PROVE  HostId(i) \in HostIds /\ HostId(i) # None
BY MultiMainAssumption DEF TypeOK, Started, HostId, HostIds, MultiMainAssumption

(* The state has its types, and a process that runs has been started.      *)
LEMMA TypeInvariant == Spec => [](TypeOK /\ Started)
<1>1. Init => TypeOK /\ Started
  BY MultiMainAssumption DEF Init, TypeOK, Started, MultiMainAssumption
<1>2. TypeOK /\ Started /\ [Next]_vars => TypeOK' /\ Started'
  <2> SUFFICES ASSUME TypeOK, Started, [Next]_vars PROVE TypeOK' /\ Started'
    OBVIOUS
  <2> USE MultiMainAssumption DEF MultiMainAssumption
  <2>1. CASE Tick
    BY <2>1 DEF Tick, TypeOK, Started, Runs
  <2>2. ASSUME NEW i \in Instance, CheckLeader(i) PROVE TypeOK' /\ Started'
    BY <2>2 DEF CheckLeader, TypeOK, Started
  <2>3. ASSUME NEW i \in Instance, Renew(i) PROVE TypeOK' /\ Started'
    BY <2>3 DEF Renew, TypeOK, Started
  <2>4. ASSUME NEW i \in Instance, Follow(i) PROVE TypeOK' /\ Started'
    BY <2>4 DEF Follow, TypeOK, Started
  <2>5. ASSUME NEW i \in Instance, Claim(i) PROVE TypeOK' /\ Started'
    BY <2>5, HostIdIsId DEF Claim, TypeOK, Started
  <2>6. ASSUME NEW i \in Instance, Claimed(i) PROVE TypeOK' /\ Started'
    BY <2>6 DEF Claimed, TypeOK, Started
  <2>7. ASSUME NEW i \in Instance, Start(i) PROVE TypeOK' /\ Started'
    BY <2>7 DEF Start, TypeOK, Started
  <2>8. ASSUME NEW i \in Instance, Shutdown(i) PROVE TypeOK' /\ Started'
    BY <2>8 DEF Shutdown, TypeOK, Started
  <2>9. ASSUME NEW i \in Instance, Exit(i) PROVE TypeOK' /\ Started'
    BY <2>9 DEF Exit, TypeOK, Started
  <2>10. CASE UNCHANGED vars
    BY <2>10 DEF vars, TypeOK, Started
  <2> QED
    BY <2>1, <2>2, <2>3, <2>4, <2>5, <2>6, <2>7, <2>8, <2>9, <2>10 DEF Next, Step
<1> QED
  BY <1>1, <1>2, PTL DEF Spec

-----------------------------------------------------------------------------

IInv == TypeOK /\ Started /\ LeaseInv

(* Two instances never both have, or are about to have, the key.           *)
LEMMA KeyIsOnes ==
  ASSUME NEW i \in Instance, NEW j \in Instance, i # j, key = HostId(i)
  PROVE  key # HostId(j)
BY HostIdsDiffer

(* The key of a leader does not run out between its renewals.              *)
LEMMA TickKeepsLease ==
  ASSUME Prompt, IInv, Tick
  PROVE  LeaseInv'
<1> SUFFICES ASSUME NEW i \in Instance, process[i] = "up"
             PROVE  (Orderly(i) /\ Lease(i))'
  BY DEF LeaseInv, Tick
<1> USE MultiMainAssumption DEF MultiMainAssumption, IInv
<1>1. /\ UNCHANGED <<process, role, check, starts>> /\ HostId(i)' = HostId(i)
      /\ since'[i] = since[i] + 1
      /\ since[i] < (IF check[i] = "none" THEN Interval ELSE 0) + Latency
  BY DEF Tick, HostId, Runs, TypeOK
<1>2. Orderly(i) /\ Lease(i)
  BY DEF LeaseInv
<1>3. ttl \in Nat /\ since[i] \in Nat
  BY DEF TypeOK
<1>4. Orderly(i)'
  BY <1>1, <1>2, <1>3 DEF Orderly
<1>5. ASSUME role[i] = "leader" \/ check[i] = "set"
      PROVE  Lease(i)'
  <2>1. key = HostId(i) /\ key # None
    BY <1>2, <1>5, HostIdIsId DEF Lease
  <2>2. ttl > 1
    BY <1>1, <1>2, <1>3, <1>5 DEF Lease, Orderly, TypeOK
  <2>3. key' = key /\ ttl' = ttl - 1
    BY <2>1, <2>2 DEF Tick
  <2> QED
    BY <1>1, <1>2, <1>3, <2>1, <2>3 DEF Lease
<1>6. ASSUME ~(role[i] = "leader" \/ check[i] = "set")
      PROVE  Lease(i)'
  BY <1>1, <1>6 DEF Lease
<1> QED
  BY <1>4, <1>5, <1>6

(* A step of instance i leaves another instance j its lease.               *)
LEMMA OthersKeepLease ==
  ASSUME Prompt, IInv, NEW i \in Instance, NEW j \in Instance, i # j,
         process[j] = "up",
         Step(i) \/ Start(i) \/ Shutdown(i) \/ Exit(i)
  PROVE  (Orderly(j) /\ Lease(j))'
<1> USE MultiMainAssumption DEF MultiMainAssumption, IInv
<1>1. /\ process'[j] = process[j] /\ role'[j] = role[j] /\ check'[j] = check[j]
      /\ since'[j] = since[j] /\ starts'[j] = starts[j] /\ HostId(j)' = HostId(j)
  BY DEF Step, CheckLeader, Renew, Follow, Claim, Claimed, Start, Shutdown, Exit, TypeOK, HostId
<1>2. Orderly(j) /\ Lease(j)
  BY DEF LeaseInv
<1>3. Orderly(j)'
  BY <1>1, <1>2 DEF Orderly
<1>4. ttl \in Nat /\ since[j] \in Nat
  BY DEF TypeOK
<1>5. ASSUME role[j] = "leader" \/ check[j] = "set"
      PROVE  Lease(j)'
  <2>1. key = HostId(j) /\ key # None /\ key # HostId(i)
    BY <1>2, <1>5, HostIdIsId, HostIdsDiffer DEF Lease
  <2>2. key' = key /\ (ttl' = ttl \/ ttl' = Ttl)
    <3>1. CASE Shutdown(i)
      BY <2>1, <3>1 DEF Shutdown, LeaseInv, Lease
    <3>2. CASE Claim(i)
      BY <2>1, <3>2 DEF Claim
    <3>3. CASE Renew(i)
      BY <2>1, <3>3 DEF Renew
    <3> QED
      BY <3>1, <3>2, <3>3 DEF Step, CheckLeader, Follow, Claimed, Start, Exit
  <2> QED
    BY <1>1, <1>2, <1>4, <2>1, <2>2 DEF Lease, Prompt
<1>6. ASSUME ~(role[j] = "leader" \/ check[j] = "set")
      PROVE  Lease(j)'
  BY <1>1, <1>6 DEF Lease
<1> QED
  BY <1>3, <1>5, <1>6

(* An instance's own step keeps its lease.                                 *)
LEMMA OwnStepKeepsLease ==
  ASSUME Prompt, IInv, NEW i \in Instance,
         Step(i) \/ Start(i) \/ Shutdown(i) \/ Exit(i), process'[i] = "up"
  PROVE  (Orderly(i) /\ Lease(i))'
<1> USE MultiMainAssumption DEF MultiMainAssumption, IInv
<1>1. ttl \in Nat /\ since[i] \in Nat
  BY DEF TypeOK
<1>2. CASE Start(i)
  BY <1>2 DEF Start, Orderly, Lease, TypeOK
<1>3. CASE Shutdown(i) \/ Exit(i)
  BY <1>3 DEF Shutdown, Exit, TypeOK
<1>4. ASSUME Step(i)
      PROVE  (Orderly(i) /\ Lease(i))'
  <2>1. process[i] = "up" /\ HostId(i)' = HostId(i)
    BY <1>4 DEF Step, CheckLeader, Renew, Follow, Claim, Claimed, HostId
  <2>2. Orderly(i) /\ Lease(i)
    BY <2>1 DEF LeaseInv
  <2>3. CASE CheckLeader(i)
    BY <1>1, <2>1, <2>2, <2>3 DEF CheckLeader, Orderly, Lease, TypeOK
  <2>4. CASE Renew(i)
    BY <1>1, <2>1, <2>2, <2>4, HostIdIsId DEF Renew, Orderly, Lease, TypeOK, Prompt
  <2>5. CASE Follow(i)
    BY <1>1, <2>1, <2>2, <2>5 DEF Follow, Orderly, Lease, TypeOK
  <2>6. CASE Claim(i)
    BY <1>1, <2>1, <2>2, <2>6 DEF Claim, Orderly, Lease, TypeOK, Prompt
  <2>7. CASE Claimed(i)
    BY <1>1, <2>1, <2>2, <2>7 DEF Claimed, Orderly, Lease, TypeOK
  <2> QED
    BY <1>4, <2>3, <2>4, <2>5, <2>6, <2>7 DEF Step
<1> QED
  BY <1>2, <1>3, <1>4

LEMMA LeaseInvariant == ASSUME Prompt PROVE Spec => []IInv
<1>1. Init => LeaseInv
  BY DEF Init, LeaseInv
<1>2. IInv /\ [Next]_vars => LeaseInv'
  <2> SUFFICES ASSUME IInv, [Next]_vars PROVE LeaseInv'
    OBVIOUS
  <2>1. CASE Tick
    BY <2>1, TickKeepsLease
  <2>2. ASSUME NEW i \in Instance, Step(i) \/ Start(i) \/ Shutdown(i) \/ Exit(i)
        PROVE  LeaseInv'
    <3> SUFFICES ASSUME NEW j \in Instance, process'[j] = "up"
                 PROVE  (Orderly(j) /\ Lease(j))'
      BY DEF LeaseInv
    <3>1. CASE i = j
      BY <2>2, <3>1, OwnStepKeepsLease
    <3>2. CASE i # j
      <4>1. process[j] = "up"
        BY <2>2, <3>2 DEF IInv, TypeOK, Step, CheckLeader, Renew, Follow, Claim, Claimed,
                          Start, Shutdown, Exit
      <4> QED
        BY <2>2, <3>2, <4>1, OthersKeepLease
    <3> QED
      BY <3>1, <3>2
  <2>3. CASE UNCHANGED vars
    BY <2>3 DEF vars, IInv, LeaseInv, Orderly, Lease, HostId
  <2> QED
    BY <2>1, <2>2, <2>3 DEF Next
<1> QED
  BY <1>1, <1>2, TypeInvariant, PTL DEF Spec, IInv

-----------------------------------------------------------------------------

(* checkLeader, tryBecomeLeader and shutdown leave the state its types.    *)
THEOREM TypeCorrect == Spec => []TypeOK
BY TypeInvariant, PTL

(* The renewals of checkLeader keep the key of a leader.                   *)
THEOREM LeaderAlwaysHoldsKey == ASSUME Prompt PROVE Spec => []LeaderHoldsKey
<1>1. IInv => LeaderHoldsKey
  BY DEF IInv, LeaseInv, Lease, LeaderHoldsKey, Leads
<1> QED
  BY <1>1, LeaseInvariant, PTL

(* tryBecomeLeader makes no second leader: a key has one value.            *)
THEOREM LeadershipIsExclusive == ASSUME Prompt PROVE Spec => []AtMostOneLeader
<1>1. IInv => AtMostOneLeader
  BY HostIdsDiffer DEF IInv, LeaseInv, Lease, AtMostOneLeader, Leads
<1> QED
  BY <1>1, LeaseInvariant, PTL
=============================================================================
