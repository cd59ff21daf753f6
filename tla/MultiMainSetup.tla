--------------------------- MODULE MultiMainSetup ---------------------------
(***************************************************************************)
(* packages/cli/src/scaling/multi-main-setup.ee.ts: several main processes *)
(* elect a leader by a key in Redis that expires.                          *)
(*                                                                         *)
(* A Redis command takes effect between its call and its answer; a check   *)
(* is a first command, its answer and what follows from it. Time passes in *)
(* seconds, and nobody stalls: an interval fires at most Latency late, and *)
(* a check is over Latency after it began.                                 *)
(***************************************************************************)
EXTENDS Integers, FiniteSets

CONSTANTS
  Instance,   \* hosts of a main process
  None,
  Ttl,        \* N8N_MULTI_MAIN_SETUP_KEY_TTL
  Interval,   \* N8N_MULTI_MAIN_SETUP_CHECK_INTERVAL
  Latency,
  StableIds,  \* in Docker the id of a main is its host name and outlives it
  Starts      \* bound on the starts of a main process on a host

ASSUME MultiMainAssumption ==
  /\ IsFiniteSet(Instance)
  /\ Ttl \in Nat \ {0} /\ Interval \in Nat \ {0} /\ Starts \in Nat \ {0}
  /\ Latency \in Nat \ {0} /\ Latency <= Interval
  /\ StableIds \in BOOLEAN
  /\ None \notin Instance \X (1..Starts)

VARIABLES
  key,      \* the value of the leader key
  ttl,      \* the seconds it has left
  process,
  role,     \* instanceRole
  check,    \* what the check or tryBecomeLeader under way does next
  since,    \* seconds since the interval, or the check at startup, began
  starts

vars == <<key, ttl, process, role, check, since, starts>>

(* hostId                                                                  *)
HostId(i) == <<i, IF StableIds THEN 1 ELSE starts[i]>>
HostIds == Instance \X (1..Starts)

(* Every variable has a value of its kind, and a key that exists expires.  *)
TypeOK ==
  /\ key \in HostIds \cup {None}
  /\ ttl \in 0..Ttl /\ (key = None <=> ttl = 0)
  /\ process \in [Instance -> {"down", "up", "stopping"}]
  /\ role \in [Instance -> {"unset", "leader", "follower"}]
  /\ check \in [Instance -> {"none", "start", "own", "other", "vacant", "set", "notset"}]
  /\ since \in [Instance -> 0..(Interval + Latency)]
  /\ starts \in [Instance -> 0..Starts]

Init ==
  /\ key = None /\ ttl = 0
  /\ process = [i \in Instance |-> "down"]
  /\ role = [i \in Instance |-> "unset"]
  /\ check = [i \in Instance |-> "none"]
  /\ since = [i \in Instance |-> 0]
  /\ starts = [i \in Instance |-> 0]

-----------------------------------------------------------------------------

(* init                                                                    *)
Start(i) ==
  /\ process[i] = "down" /\ starts[i] < Starts
  /\ process' = [process EXCEPT ![i] = "up"]
  /\ role' = [role EXCEPT ![i] = "unset"]
  /\ check' = [check EXCEPT ![i] = "start"]
  /\ since' = [since EXCEPT ![i] = 0]
  /\ starts' = [starts EXCEPT ![i] = @ + 1]
  /\ UNCHANGED <<key, ttl>>

(* The interval fires and checkLeader gets the key.                        *)
CheckLeader(i) ==
  /\ process[i] = "up" /\ role[i] # "unset" /\ check[i] = "none"
  /\ since[i] >= Interval
  /\ since' = [since EXCEPT ![i] = 0]
  /\ check' = [check EXCEPT ![i] = IF key = None THEN "vacant"
                                   ELSE IF key = HostId(i) THEN "own" ELSE "other"]
  /\ UNCHANGED <<key, ttl, process, role, starts>>

(* Mutant of Renew: the key is not extended.                               *)
RenewNothing(i) ==
  /\ check[i] = "own"
  /\ check' = [check EXCEPT ![i] = "none"]
  /\ UNCHANGED <<key, ttl, process, role, since, starts>>

(* "Leader is this instance": setExpiration, on whatever the key is by now *)
Renew(i) ==
  /\ check[i] = "own"
  /\ ttl' = IF key = None THEN 0 ELSE Ttl
  /\ check' = [check EXCEPT ![i] = "none"]
  /\ UNCHANGED <<key, process, role, since, starts>>

(* "Leader is other instance"                                              *)
Follow(i) ==
  /\ check[i] = "other"
  /\ role' = [role EXCEPT ![i] = IF @ = "leader" THEN "follower" ELSE @]
  /\ check' = [check EXCEPT ![i] = "none"]
  /\ UNCHANGED <<key, ttl, process, since, starts>>

(* "Leadership vacant": the instance steps down; setIfNotExists.           *)
Claim(i) ==
  /\ check[i] \in {"start", "vacant"}
  /\ IF key = None
     THEN key' = HostId(i) /\ ttl' = Ttl /\ check' = [check EXCEPT ![i] = "set"]
     ELSE check' = [check EXCEPT ![i] = "notset"] /\ UNCHANGED <<key, ttl>>
  /\ role' = [role EXCEPT ![i] = IF check[i] = "vacant" THEN "follower" ELSE @]
  /\ UNCHANGED <<process, since, starts>>

(* Mutant of Claimed: the answer is looked at in init only.                *)
ClaimedAtStartOnly(i) ==
  /\ check[i] \in {"set", "notset"}
  /\ role' = [role EXCEPT ![i] = IF check[i] = "set" /\ @ = "unset" THEN "leader" ELSE "follower"]
  /\ check' = [check EXCEPT ![i] = "none"]
  /\ since' = [since EXCEPT ![i] = IF role[i] = "unset" \/ process[i] = "stopping" THEN 0 ELSE @]
  /\ UNCHANGED <<key, ttl, process, starts>>

(* The answer of setIfNotExists; init then sets the interval.              *)
Claimed(i) ==
  /\ check[i] \in {"set", "notset"}
  /\ role' = [role EXCEPT ![i] = IF check[i] = "set" THEN "leader" ELSE "follower"]
  /\ check' = [check EXCEPT ![i] = "none"]
  /\ since' = [since EXCEPT ![i] = IF role[i] = "unset" \/ process[i] = "stopping" THEN 0 ELSE @]
  /\ UNCHANGED <<key, ttl, process, starts>>

(* Mutant of Shutdown: a follower clears the key as well.                  *)
ShutdownClearing(i) ==
  /\ process[i] = "up" /\ role[i] # "unset"
  /\ process' = [process EXCEPT ![i] = "stopping"]
  /\ key' = None /\ ttl' = 0
  /\ UNCHANGED <<role, check, since, starts>>

(* shutdown: the leader clears the key, whoever holds it. A check under    *)
(* way goes on.                                                            *)
Shutdown(i) ==
  /\ process[i] = "up" /\ role[i] # "unset"
  /\ process' = [process EXCEPT ![i] = "stopping"]
  /\ IF role[i] = "leader" THEN key' = None /\ ttl' = 0 ELSE UNCHANGED <<key, ttl>>
  /\ UNCHANGED <<role, check, since, starts>>

(* The process ends: the end of stopProcess, or a crash.                   *)
Exit(i) ==
  /\ process[i] # "down"
  /\ process' = [process EXCEPT ![i] = "down"]
  /\ role' = [role EXCEPT ![i] = "unset"]
  /\ check' = [check EXCEPT ![i] = "none"]
  /\ since' = [since EXCEPT ![i] = 0]
  /\ UNCHANGED <<key, ttl, starts>>

(* A second passes, unless something is overdue.                           *)
Runs(i) == check[i] # "none" \/ process[i] = "up"

Tick ==
  /\ \A i \in Instance : Runs(i) =>
       since[i] < (IF check[i] = "none" THEN Interval ELSE 0) + Latency
  /\ since' = [i \in Instance |-> IF Runs(i) THEN since[i] + 1 ELSE since[i]]
  /\ ttl' = IF key = None THEN 0 ELSE ttl - 1
  /\ key' = IF ttl = 1 THEN None ELSE key
  /\ UNCHANGED <<process, role, check, starts>>

Step(i) == CheckLeader(i) \/ Renew(i) \/ Follow(i) \/ Claim(i) \/ Claimed(i)

Next == Tick \/ \E i \in Instance : Step(i) \/ Start(i) \/ Shutdown(i) \/ Exit(i)

Spec == Init /\ [][Next]_vars

(* Time passes, and the intervals and Redis work. Starts, shutdowns and    *)
(* exits need not happen.                                                  *)
FairSpec == Spec /\ WF_vars(Tick) /\ \A i \in Instance : WF_vars(Step(i))

-----------------------------------------------------------------------------

(* An instance that shuts down has stopped its triggers and its tracker    *)
(* before it clears the key; its role is not reset.                        *)
Leads(i) == process[i] = "up" /\ role[i] = "leader"

(* Leadership is exclusive: triggers fire and waiting executions resume in *)
(* one main only, through crashes, restarts and shutdowns, as long as      *)
(* nobody stalls.                                                          *)
AtMostOneLeader == \A i, j \in Instance : Leads(i) /\ Leads(j) => i = j

(* The leader is the one whose id is in the key, so that no other can      *)
(* claim it: the renewal comes in time and goes to its own key.            *)
LeaderHoldsKey == \A i \in Instance : Leads(i) => key = HostId(i)

(* "Designates leader and followers when running multiple main processes": *)
(* if a main stays up, there is a leader again and again.                  *)
LeadershipIsFilled ==
  (\E i \in Instance : <>[](process[i] = "up")) => []<>(\E i \in Instance : Leads(i))
=============================================================================
