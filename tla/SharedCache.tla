----------------------------- MODULE SharedCache -----------------------------
(***************************************************************************)
(* RedisClassificationCache (cache.py:41-68) under the classify handlers   *)
(* of several service processes.  The cache outlives them: an instance may *)
(* restart with another policy file while the entries it made stay.        *)
(*                                                                         *)
(* Redis is external.  It answers a get or set at once, forgets an entry   *)
(* when its time is up or whenever it likes (maxmemory, a flush), and may  *)
(* be out of reach; a set that raises may have been done all the same.     *)
(***************************************************************************)
EXTENDS Integers, FiniteSets

CONSTANTS
  Requests,
  Instances,
  InstanceOf,    \* the process a request comes to
  KeyOf,         \* its cache key, the same in every process
  Policies,      \* the policy versions an instance may start with
  TtlHalves,     \* CACHE_TTL_SECONDS, in half seconds
  HalfSeconds,   \* the half seconds the clock may show
  MaxRestarts,   \* bound on the restarts of instances
  NoEntry        \* no entry in Redis, no answer yet, never given up

SharedKeys == {KeyOf[r] : r \in Requests}

ASSUME SharedAssumption ==
  /\ IsFiniteSet(Requests)
  /\ InstanceOf \in [Requests -> Instances] /\ DOMAIN KeyOf = Requests
  /\ TtlHalves \in Int /\ HalfSeconds \subseteq Nat /\ MaxRestarts \in Nat
  /\ NoEntry \notin HalfSeconds

VARIABLES
  time,
  store,       \* Redis: of each key the entry or NoEntry
  policy,      \* of each instance: the version it runs
  stage,       \* of each request: how far its handler is
  answer,      \* of each request: the decision it returned, or NoEntry
  nextId,      \* the next unused decision id
  retired,     \* history: of each version, when an instance last gave it up
  restarts

sharedVars == <<time, store, policy, stage, answer, nextId, retired, restarts>>

(* Bug: a fraction of a second counts as a whole one. *)
ExpiryRoundedUp == IF TtlHalves < 2 THEN 2 ELSE 2 * ((TtlHalves + 1) \div 2)

(* ex = max(1, int(ttl_seconds)), whole seconds, in half seconds. *)
Expiry == IF TtlHalves < 2 THEN 2 ELSE 2 * (TtlHalves \div 2)

Decisions == [id : Nat \ {0}, key : SharedKeys, policy : Policies, at : HalfSeconds]
Entries == [value : Decisions, expires : Nat]

SharedInit ==
  /\ time \in HalfSeconds
  /\ store = [k \in SharedKeys |-> NoEntry]
  /\ policy \in [Instances -> Policies]
  /\ stage = [r \in Requests |-> "idle"]
  /\ answer = [r \in Requests |-> NoEntry]
  /\ nextId = 1
  /\ retired = [v \in Policies |-> NoEntry]
  /\ restarts = 0

-----------------------------------------------------------------------------
Live(k) == store[k] # NoEntry /\ time < store[k].expires

Answers(r, decision) ==
  /\ stage' = [stage EXCEPT ![r] = "answered"]
  /\ answer' = [answer EXCEPT ![r] = decision]

Fails(r) ==
  /\ stage' = [stage EXCEPT ![r] = "failed"]
  /\ UNCHANGED answer

(* Bug: a hit renews the entry. *)
HitRenewing(r) ==
  /\ stage[r] = "idle" /\ Live(KeyOf[r])
  /\ Answers(r, store[KeyOf[r]].value)
  /\ store' = [store EXCEPT ![KeyOf[r]].expires = time + Expiry]
  /\ UNCHANGED <<time, policy, nextId, retired, restarts>>

Hit(r) ==
  /\ stage[r] = "idle" /\ Live(KeyOf[r])
  /\ Answers(r, store[KeyOf[r]].value)
  /\ UNCHANGED <<time, store, policy, nextId, retired, restarts>>

Miss(r) ==
  /\ stage[r] = "idle" /\ ~ Live(KeyOf[r])
  /\ stage' = [stage EXCEPT ![r] = "working"]
  /\ UNCHANGED <<time, store, policy, answer, nextId, retired, restarts>>

(* The get raises: the request fails before anything was computed. *)
GetFails(r) ==
  /\ stage[r] = "idle"
  /\ Fails(r)
  /\ UNCHANGED <<time, store, policy, nextId, retired, restarts>>

(* What classify() has made for r by the policy of its process, put now.   *)
Made(r) ==
  [id |-> nextId, key |-> KeyOf[r], policy |-> policy[InstanceOf[r]], at |-> time]

Stored(decision) ==
  [store EXCEPT ![decision.key] = [value |-> decision, expires |-> time + Expiry]]

Puts(r) ==
  /\ stage[r] = "working"
  /\ nextId' = nextId + 1
  /\ store' = Stored(Made(r))
  /\ Answers(r, Made(r))
  /\ UNCHANGED <<time, policy, retired, restarts>>

(* The set raises; Redis may have done it. *)
PutFails(r) ==
  /\ stage[r] = "working"
  /\ nextId' = nextId + 1
  /\ store' \in {store, Stored(Made(r))}
  /\ Fails(r)
  /\ UNCHANGED <<time, policy, retired, restarts>>

Forget(k) ==
  /\ store[k] # NoEntry
  /\ store' = [store EXCEPT ![k] = NoEntry]
  /\ UNCHANGED <<time, policy, stage, answer, nextId, retired, restarts>>

TimePasses ==
  /\ \E t \in HalfSeconds : t > time /\ time' = t
  /\ UNCHANGED <<store, policy, stage, answer, nextId, retired, restarts>>

(* The process ends, with the requests it was at, and starts again. *)
Restart(i) ==
  /\ restarts < MaxRestarts
  /\ restarts' = restarts + 1
  /\ \E v \in Policies : policy' = [policy EXCEPT ![i] = v]
  /\ retired' = [retired EXCEPT ![policy[i]] = time]
  /\ stage' = [r \in Requests |->
                 IF InstanceOf[r] = i /\ stage[r] = "working" THEN "failed" ELSE stage[r]]
  /\ UNCHANGED <<time, store, answer, nextId>>

Handle(r) == Hit(r) \/ Miss(r) \/ GetFails(r)
Resume(r) == Puts(r) \/ PutFails(r)

SharedNext ==
  \/ \E r \in Requests : Handle(r) \/ Resume(r)
  \/ \E k \in SharedKeys : Forget(k)
  \/ \E i \in Instances : Restart(i)
  \/ TimePasses

SharedSpec == SharedInit /\ [][SharedNext]_sharedVars

-----------------------------------------------------------------------------
(* Type correctness. *)
SharedTypeOK ==
  /\ time \in HalfSeconds
  /\ store \in [SharedKeys -> Entries \cup {NoEntry}]
  /\ policy \in [Instances -> Policies]
  /\ stage \in [Requests -> {"idle", "working", "answered", "failed"}]
  /\ answer \in [Requests -> Decisions \cup {NoEntry}]
  /\ nextId \in Nat \ {0}
  /\ retired \in [Policies -> HalfSeconds \cup {NoEntry}]
  /\ restarts \in 0..MaxRestarts

Answered(r) == answer'[r] # answer[r]

(* A request gets a decision put less than the configured TTL ago (or less *)
(* than a second, the least Redis knows), whichever process made it and    *)
(* whether or not the request it was made for failed (cache.py:61-68).     *)
Fresh ==
  [][\A r \in Requests :
       Answered(r) =>
         time - answer'[r].at < (IF TtlHalves < 2 THEN 2 ELSE TtlHalves)]_sharedVars

(* A policy version no instance runs any more is served for less than the  *)
(* lifetime of an entry after the last instance gave it up: that is how    *)
(* long a new policy file takes to be in force everywhere.                 *)
OldPolicyDiesOut ==
  [][\A r \in Requests :
       Answered(r) =>
         LET v == answer'[r].policy IN
         \/ \E i \in Instances : policy[i] = v
         \/ retired[v] # NoEntry /\ time - retired[v] < Expiry]_sharedVars
=============================================================================
