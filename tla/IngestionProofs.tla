--------------------------- MODULE IngestionProofs ---------------------------
(***************************************************************************)
(* Proofs about Ingestion, for any clients, queues, keys and batches: keys *)
(* name one job, batches are whole, and a job keeps the budget of its      *)
(* policy.                                                                 *)
(***************************************************************************)
EXTENDS Ingestion, FiniteSetTheorems, SequenceTheorems, TLAPS

(***************************************************************************)
(* Requests that leave the jobs alone.                                     *)
(***************************************************************************)
RequestType ==
    [pc : {"none", "provision", "queue", "find", "policy", "insert", "batch"},
     queue : Queues \cup {NULL}, key : Keys \cup {NULL},
     policy : Names \cup {NULL}, maxRetries : Nat]

PolicyRows == {NULL, CustomPolicy} \cup {StandardPolicies[n] : n \in Standard}

\* Every policy is one that the API admits.
LEMMA PoliciesTyped == \A p \in PolicyRows : p # NULL => p \in Policies
<1>1. ASSUME NEW n \in Standard PROVE StandardPolicies[n] \in Policies
  <2>1. CASE n = "exponential"
    BY <2>1 DEF StandardPolicies, Policies
  <2>2. CASE n = "linear"
    BY <2>2 DEF StandardPolicies, Policies
  <2>3. CASE n = "fixed"
    BY <2>3 DEF StandardPolicies, Policies
  <2> QED
    BY <2>1, <2>2, <2>3 DEF Standard, StandardPolicies
<1> QED
  BY <1>1, PolicyIsValid DEF PolicyRows

LEMMA BudgetsAreNaturals == \A p \in PolicyRows : p # NULL => p.maxRetries \in Nat
BY PoliciesTyped DEF Policies

\* Policies are never changed or deleted, once they exist.
PoliciesGrow ==
    /\ policies' \in [Names -> PolicyRows]
    /\ \A n \in Names : policies[n] # NULL => policies'[n] = policies[n]

QueuesFit ==
    /\ queue' \in [Queues -> [state : {"none", "open", "deleted"}, policy : Names \cup {NULL}]]
    /\ \A q \in Queues : queue'[q].policy # NULL => policies'[queue'[q].policy] # NULL

RequestFits(r) ==
    /\ r \in RequestType
    /\ r.policy # NULL => policies'[r.policy] # NULL
    /\ r.pc # "none" /\ r.pc # "provision" => r.queue \in Queues
    /\ r.pc = "insert" /\ r.policy # NULL => r.maxRetries = policies'[r.policy].maxRetries

LEMMA PoliciesStay == TypeOK /\ UNCHANGED policies => PoliciesGrow
BY DEF TypeOK, PoliciesGrow, PolicyRows

LEMMA QueuesStay == TypeOK /\ PoliciesExist /\ PoliciesGrow /\ UNCHANGED queue => QueuesFit
BY DEF TypeOK, PoliciesExist, PolicyExists, PoliciesGrow, QueuesFit

LEMMA NoRequestFits == RequestFits(NoRequest)
BY DEF RequestFits, NoRequest, RequestType

\* What holds of the requests after one of them has moved.
LEMMA RequestsFit ==
    ASSUME TypeOK, PoliciesExist, PoliciesGrow, NEW c \in Clients, NEW r, RequestFits(r),
           request' = [request EXCEPT ![c] = r]
    PROVE  /\ request' \in [Clients -> RequestType]
           /\ \A d \in Clients : RequestFits(request'[d])
<1>1. request \in [Clients -> RequestType]
  BY DEF TypeOK, RequestType
<1>2. \A d \in Clients : request'[d] = IF d = c THEN r ELSE request[d]
  BY <1>1
<1>3. ASSUME NEW d \in Clients, d # c PROVE RequestFits(request[d])
  <2>1. request[d] \in RequestType /\ request[d].policy \in Names \cup {NULL}
    BY <1>1 DEF RequestType
  <2>2. request[d].policy # NULL => policies[request[d].policy] # NULL
    BY DEF PoliciesExist, PolicyExists
  <2>3. request[d].policy # NULL => policies'[request[d].policy] = policies[request[d].policy]
    BY <2>1, <2>2 DEF PoliciesGrow
  <2> QED
    BY <2>1, <2>2, <2>3 DEF RequestFits, PoliciesExist
<1> QED
  BY <1>1, <1>2, <1>3 DEF RequestFits

\* A statement that leaves the jobs alone.
LEMMA JobsStay ==
    ASSUME IngestionInv, UNCHANGED jobs, PoliciesGrow, QueuesFit,
           NEW c \in Clients, NEW r, RequestFits(r), request' = [request EXCEPT ![c] = r],
           answered' \in [Keys -> SUBSET DOMAIN jobs], OneJobPerKey'
    PROVE  IngestionInv'
<1> USE DEF IngestionInv
<1>1. request' \in [Clients -> RequestType] /\ \A d \in Clients : RequestFits(request'[d])
  BY RequestsFit
<1>2. TypeOK'
  BY <1>1 DEF TypeOK, RequestType, PoliciesGrow, PolicyRows, QueuesFit
<1>3. KeysAreUnique' /\ BatchesAreWhole'
  BY DEF KeysAreUnique, BatchesAreWhole, Live
<1>4. PoliciesExist'
  <2>1. \A i \in DOMAIN jobs :
           /\ jobs[i].policy # NULL => policies'[jobs[i].policy] = policies[jobs[i].policy]
           /\ jobs[i].policy # NULL => policies[jobs[i].policy] # NULL
    BY DEF TypeOK, PoliciesExist, PolicyExists, PoliciesGrow
  <2> QED
    BY <1>1, <2>1 DEF PoliciesExist, PolicyExists, RequestFits, QueuesFit
<1> QED
  BY <1>2, <1>3, <1>4

\* When the answers do not change either, the jobs they name are the same.
LEMMA AnswersStay == IngestionInv /\ UNCHANGED <<jobs, answered>> =>
    answered' \in [Keys -> SUBSET DOMAIN jobs] /\ OneJobPerKey'
BY DEF IngestionInv, TypeOK, OneJobPerKey, WithKey, Live

LEMMA CountPoliciesKeeps ==
    ASSUME IngestionInv, NEW c \in Clients, CountPolicies(c)
    PROVE  IngestionInv'
<1> DEFINE r == [NoRequest EXCEPT !.pc = "provision"]
<1>1. UNCHANGED <<policies, queue, jobs, answered>> /\ request' = [request EXCEPT ![c] = r]
  BY DEF CountPolicies, Begin
<1>2. PoliciesGrow /\ QueuesFit
  BY <1>1, PoliciesStay, QueuesStay DEF IngestionInv
<1>3. RequestFits(r)
  BY DEF RequestFits, NoRequest, RequestType
<1> HIDE DEF r
<1> QED
  BY <1>1, <1>2, <1>3, AnswersStay, JobsStay

LEMMA ProvisionKeeps ==
    ASSUME IngestionInv, NEW c \in Clients, Provision(c)
    PROVE  IngestionInv'
<1>1. UNCHANGED <<queue, jobs, answered>> /\ request' = [request EXCEPT ![c] = NoRequest]
  BY DEF Provision, Answer
<1>2. PoliciesGrow
  BY DEF Provision, PoliciesGrow, PolicyRows, IngestionInv, TypeOK
<1>3. QueuesFit
  BY <1>1, <1>2, QueuesStay DEF IngestionInv
<1> QED
  BY <1>1, <1>2, <1>3, NoRequestFits, AnswersStay, JobsStay

LEMMA CreatePolicyKeeps ==
    ASSUME IngestionInv, NEW c \in Clients, NEW n \in Names, CreatePolicy(c, n)
    PROVE  IngestionInv'
<1>1. UNCHANGED <<queue, jobs, answered>> /\ request' = [request EXCEPT ![c] = NoRequest]
  BY DEF CreatePolicy, Begin
<1>2. PoliciesGrow
  BY DEF CreatePolicy, PoliciesGrow, PolicyRows, IngestionInv, TypeOK
<1>3. QueuesFit
  BY <1>1, <1>2, QueuesStay DEF IngestionInv
<1> QED
  BY <1>1, <1>2, <1>3, NoRequestFits, AnswersStay, JobsStay

LEMMA CreateQueueCheckKeeps ==
    ASSUME IngestionInv, NEW c \in Clients, NEW q \in Queues, NEW n \in Names \cup {NULL},
           CreateQueueCheck(c, q, n)
    PROVE  IngestionInv'
<1> DEFINE r == [NoRequest EXCEPT !.pc = "queue", !.queue = q, !.policy = n]
<1>1. UNCHANGED <<policies, queue, jobs, answered>> /\ request' = [request EXCEPT ![c] = r]
  BY DEF CreateQueueCheck, Begin
<1>2. PoliciesGrow /\ QueuesFit
  BY <1>1, PoliciesStay, QueuesStay DEF IngestionInv
<1>3. RequestFits(r)
  BY <1>1 DEF RequestFits, NoRequest, RequestType, CreateQueueCheck, PolicyExists
<1> HIDE DEF r
<1> QED
  BY <1>1, <1>2, <1>3, AnswersStay, JobsStay

LEMMA CreateQueueKeeps ==
    ASSUME IngestionInv, NEW c \in Clients, CreateQueue(c)
    PROVE  IngestionInv'
<1> DEFINE q == request[c].queue
           n == request[c].policy
<1>1. UNCHANGED <<policies, jobs, answered>> /\ request' = [request EXCEPT ![c] = NoRequest]
  BY DEF CreateQueue, Answer
<1>2. PoliciesGrow
  BY <1>1, PoliciesStay DEF IngestionInv
<1>3. q \in Queues /\ n \in Names \cup {NULL} /\ (n # NULL => policies[n] # NULL)
  BY DEF IngestionInv, TypeOK, PoliciesExist, PolicyExists, CreateQueue, At
<1>4. \/ UNCHANGED queue
      \/ queue' = [queue EXCEPT ![q] = [state |-> "open", policy |-> n]]
  BY DEF CreateQueue
<1>5. QueuesFit
  <2>1. CASE UNCHANGED queue
    BY <1>2, <2>1, QueuesStay DEF IngestionInv
  <2>2. CASE queue' = [queue EXCEPT ![q] = [state |-> "open", policy |-> n]]
    BY <1>1, <1>3, <2>2 DEF QueuesFit, IngestionInv, TypeOK, PoliciesExist, PolicyExists
  <2> QED
    BY <1>4, <2>1, <2>2
<1> QED
  BY <1>1, <1>2, <1>5, NoRequestFits, AnswersStay, JobsStay

LEMMA UpdateQueueKeeps ==
    ASSUME IngestionInv, NEW c \in Clients, NEW q \in Queues, NEW n \in Names \cup {NULL},
           UpdateQueue(c, q, n)
    PROVE  IngestionInv'
<1>1. /\ UNCHANGED <<policies, jobs, answered>> /\ request' = [request EXCEPT ![c] = NoRequest]
      /\ queue' = [queue EXCEPT ![q].policy = n] /\ (n # NULL => policies[n] # NULL)
  BY DEF UpdateQueue, Begin, PolicyExists
<1>2. PoliciesGrow
  BY <1>1, PoliciesStay DEF IngestionInv
<1>3. \A p \in Queues : queue'[p].policy = IF p = q THEN n ELSE queue[p].policy
  <2>1. /\ queue \in [Queues -> [state : {"none", "open", "deleted"}, policy : Names \cup {NULL}]]
        /\ queue' = [queue EXCEPT ![q] = [queue[q] EXCEPT !.policy = n]]
    BY <1>1 DEF IngestionInv, TypeOK
  <2> QED
    BY <2>1
<1>4. queue' \in [Queues -> [state : {"none", "open", "deleted"}, policy : Names \cup {NULL}]]
  BY <1>1 DEF IngestionInv, TypeOK
<1>5. QueuesFit
  BY <1>1, <1>3, <1>4 DEF QueuesFit, IngestionInv, PoliciesExist, PolicyExists
<1> QED
  BY <1>1, <1>2, <1>5, NoRequestFits, AnswersStay, JobsStay

LEMMA ReadQueueKeeps ==
    ASSUME IngestionInv, NEW c \in Clients, NEW q \in Queues, NEW k \in Keys \cup {NULL},
           ReadQueue(c, q, k)
    PROVE  IngestionInv'
<1> DEFINE r == [NoRequest EXCEPT !.pc = "find", !.queue = q, !.key = k, !.policy = queue[q].policy,
                                  !.maxRetries = DefaultMaxRetries]
<1>1. UNCHANGED <<policies, queue, jobs, answered>> /\ request' = [request EXCEPT ![c] = r]
  BY DEF ReadQueue, Begin
<1>2. PoliciesGrow /\ QueuesFit
  BY <1>1, PoliciesStay, QueuesStay DEF IngestionInv
<1>3. queue[q].policy \in Names \cup {NULL}
      /\ (queue[q].policy # NULL => policies'[queue[q].policy] # NULL)
  BY <1>1 DEF IngestionInv, TypeOK, PoliciesExist, PolicyExists
<1>4. RequestFits(r)
  BY <1>3 DEF RequestFits, NoRequest, RequestType, DefaultMaxRetries
<1> HIDE DEF r
<1> QED
  BY <1>1, <1>2, <1>4, AnswersStay, JobsStay

LEMMA ReadQueueForBatchKeeps ==
    ASSUME IngestionInv, NEW c \in Clients, NEW q \in Queues, ReadQueueForBatch(c, q)
    PROVE  IngestionInv'
<1> DEFINE r == [NoRequest EXCEPT !.pc = "batch", !.queue = q, !.policy = queue[q].policy]
<1>1. UNCHANGED <<policies, queue, jobs, answered>> /\ request' = [request EXCEPT ![c] = r]
  BY DEF ReadQueueForBatch, Begin
<1>2. PoliciesGrow /\ QueuesFit
  BY <1>1, PoliciesStay, QueuesStay DEF IngestionInv
<1>3. queue[q].policy \in Names \cup {NULL}
      /\ (queue[q].policy # NULL => policies'[queue[q].policy] # NULL)
  BY <1>1 DEF IngestionInv, TypeOK, PoliciesExist, PolicyExists
<1>4. RequestFits(r)
  BY <1>3 DEF RequestFits, NoRequest, RequestType
<1> HIDE DEF r
<1> QED
  BY <1>1, <1>2, <1>4, AnswersStay, JobsStay

\* The policy that a request settles on exists, and gives it its budget.
LEMMA ReadPolicyKeeps ==
    ASSUME IngestionInv, NEW c \in Clients, NEW n \in Names \cup {NULL}, ReadPolicy(c, n)
    PROVE  IngestionInv'
<1> DEFINE old == request[c]
           r == [old EXCEPT !.pc = "insert", !.policy = n, !.maxRetries = Budget(old, n)]
<1>1. /\ UNCHANGED <<policies, queue, jobs, answered>> /\ old.pc = "policy"
      /\ n # old.policy => n # NULL /\ PolicyExists(n)
      /\ request' = [request EXCEPT ![c].pc = "insert", ![c].policy = n,
                                    ![c].maxRetries = Budget(old, n)]
  BY DEF ReadPolicy, At
<1>2. old \in RequestType
  BY DEF IngestionInv, TypeOK, RequestType
<1>3. request' = [request EXCEPT ![c] = r]
  BY <1>1, <1>2 DEF IngestionInv, TypeOK, RequestType
<1>4. PoliciesGrow /\ QueuesFit
  BY <1>1, PoliciesStay, QueuesStay DEF IngestionInv
<1>5. n # NULL => policies[n] # NULL
  BY <1>1 DEF IngestionInv, PoliciesExist, PolicyExists
<1>6. Budget(old, n) \in Nat /\ (n # NULL => Budget(old, n) = policies[n].maxRetries)
  <2>1. n # NULL => policies[n] \in PolicyRows
    BY DEF IngestionInv, TypeOK, PolicyRows
  <2>2. old.maxRetries \in Nat
    BY <1>2 DEF RequestType
  <2> QED
    BY <1>5, <2>1, <2>2, BudgetsAreNaturals DEF Budget
<1>7. old.queue \in Queues
  BY <1>1 DEF IngestionInv, PoliciesExist
<1>8. /\ r \in RequestType /\ r.policy = n /\ r.pc = "insert" /\ r.queue = old.queue
      /\ r.maxRetries = Budget(old, n)
  BY <1>2, <1>6 DEF RequestType
<1>9. RequestFits(r)
  BY <1>1, <1>5, <1>6, <1>7, <1>8 DEF RequestFits
<1> HIDE DEF r
<1> QED
  BY <1>1, <1>3, <1>4, <1>9, AnswersStay, JobsStay

\* A request with a key is answered with the one job that has it.
LEMMA FindByKeyKeeps ==
    ASSUME IngestionInv, NEW c \in Clients, FindByKey(c)
    PROVE  IngestionInv'
<1> DEFINE old == request[c]
<1>1. UNCHANGED <<policies, queue, jobs>> /\ old.pc = "find"
  BY DEF FindByKey, At
<1>2. PoliciesGrow /\ QueuesFit
  BY <1>1, PoliciesStay, QueuesStay DEF IngestionInv
<1>3. old \in RequestType /\ old.key \in Keys \cup {NULL}
  BY DEF IngestionInv, TypeOK, RequestType
<1>4. PICK k \in Keys \cup {NULL} : k = old.key
  BY <1>3
<1>5. CASE k = NULL \/ WithKey(k) = {}
  <2> DEFINE r == [old EXCEPT !.pc = "policy"]
  <2>1. request' = [request EXCEPT ![c].pc = "policy"] /\ UNCHANGED answered
    BY <1>4, <1>5 DEF FindByKey, Goto
  <2>2. request' = [request EXCEPT ![c] = r]
    BY <1>3, <2>1 DEF IngestionInv, TypeOK, RequestType
  <2>3. r \in RequestType /\ r.pc = "policy" /\ r.policy = old.policy /\ r.queue = old.queue
    BY <1>3 DEF RequestType
  <2>4. old.queue \in Queues /\ (old.policy # NULL => policies'[old.policy] # NULL)
    BY <1>1 DEF IngestionInv, PoliciesExist, PolicyExists
  <2>5. RequestFits(r)
    BY <2>3, <2>4 DEF RequestFits
  <2> HIDE DEF r
  <2> QED
    BY <1>1, <1>2, <2>1, <2>2, <2>5, AnswersStay, JobsStay
<1>6. CASE k # NULL /\ WithKey(k) # {}
  <2>1. /\ request' = [request EXCEPT ![c] = NoRequest]
        /\ answered' = [answered EXCEPT ![k] = @ \cup WithKey(k)] /\ k \in Keys
    BY <1>4, <1>6 DEF FindByKey, Answer
  <2>2. WithKey(k) \subseteq DOMAIN jobs /\ WithKey(k)' = WithKey(k)
    BY <1>1 DEF WithKey, Live
  <2>3. answered' \in [Keys -> SUBSET DOMAIN jobs]
    BY <2>1, <2>2 DEF IngestionInv, TypeOK
  <2>4. PICK i \in WithKey(k) : TRUE
    BY <1>6
  <2>5. WithKey(k) = {i}
    BY <1>6, <2>4 DEF IngestionInv, KeysAreUnique, WithKey
  <2>6. answered'[k] = {i}
    BY <2>1, <2>5 DEF IngestionInv, OneJobPerKey, TypeOK
  <2>7. Cardinality({i}) = 1
    BY FS_Singleton
  <2>8. \A l \in Keys : l # k => answered'[l] = answered[l] /\ WithKey(l)' = WithKey(l)
    BY <1>1, <2>1 DEF IngestionInv, TypeOK, WithKey, Live
  <2>9. OneJobPerKey'
    <3> SUFFICES ASSUME NEW l \in Keys
                 PROVE  Cardinality(answered'[l]) <= 1 /\ answered'[l] \subseteq WithKey(l)'
      BY DEF OneJobPerKey
    <3>1. CASE l = k
      BY <2>2, <2>5, <2>6, <2>7, <3>1
    <3>2. CASE l # k
      BY <2>8, <3>2 DEF IngestionInv, OneJobPerKey
    <3> QED
      BY <3>1, <3>2
  <2> QED
    BY <1>1, <1>2, <2>1, <2>3, <2>9, NoRequestFits, JobsStay
<1> QED
  BY <1>5, <1>6

(***************************************************************************)
(* Steps that change the jobs.                                             *)
(***************************************************************************)
LEMMA AtMostOne == ASSUME NEW A, \A x, y \in A : x = y PROVE Cardinality(A) <= 1
<1>1. CASE A = {}
  BY <1>1, FS_EmptySet
<1>2. CASE A # {}
  <2>1. PICK x \in A : A = {x}
    BY <1>2
  <2>2. Cardinality({x}) = 1
    BY FS_Singleton
  <2> QED
    BY <2>1, <2>2
<1> QED
  BY <1>1, <1>2

\* A sequence is one of its own elements.
LEMMA OfItsElements ==
    ASSUME NEW S, NEW s \in Seq(S)
    PROVE  s \in Seq({s[i] : i \in DOMAIN s})
<1>1. Len(s) \in Nat /\ DOMAIN s = 1..Len(s) /\ s \in [1..Len(s) -> S]
  BY LenProperties
<1>2. s \in [1..Len(s) -> {s[i] : i \in DOMAIN s}]
  BY <1>1
<1> QED
  BY <1>1, <1>2, SeqDef

LEMMA JobsAreSequence ==
    TypeOK => Len(jobs) \in Nat /\ DOMAIN jobs = 1..Len(jobs)
BY LenProperties DEF TypeOK

\* Rows that keep all that the invariant reads, except that a queue may be
\* deleted with all of its rows.
LEMMA RowsKept ==
    ASSUME IngestionInv, UNCHANGED policies, QueuesFit,
           \/ UNCHANGED request
           \/ \E c \in Clients : request' = [request EXCEPT ![c] = NoRequest],
           NEW S, jobs' \in Seq(S), DOMAIN jobs' = DOMAIN jobs,
           \A i \in DOMAIN jobs :
              /\ DOMAIN jobs'[i] = DOMAIN jobs[i]
              /\ jobs'[i].queue = jobs[i].queue /\ jobs'[i].key = jobs[i].key
              /\ jobs'[i].kind = jobs[i].kind /\ jobs'[i].policy = jobs[i].policy
              /\ jobs'[i].maxRetries = jobs[i].maxRetries
              /\ jobs'[i].live \in BOOLEAN /\ (jobs'[i].live => jobs[i].live),
           \A i, j \in DOMAIN jobs :
              jobs[i].queue = jobs[j].queue /\ jobs[i].live = jobs[j].live
                  => jobs'[i].live = jobs'[j].live,
           answered' \in [Keys -> SUBSET DOMAIN jobs],
           \A k \in Keys : \A i \in answered'[k] : i \in answered[k] /\ jobs'[i].live
    PROVE  IngestionInv'
<1> USE DEF IngestionInv
<1>1. PoliciesGrow
  BY PoliciesStay
<1>2. request' \in [Clients -> RequestType] /\ \A d \in Clients : RequestFits(request'[d])
  <2>1. CASE UNCHANGED request
    BY <2>1 DEF TypeOK, RequestType, RequestFits, PoliciesExist, PolicyExists
  <2>2. CASE \E c \in Clients : request' = [request EXCEPT ![c] = NoRequest]
    BY <1>1, <2>2, NoRequestFits, RequestsFit
  <2> QED
    BY <2>1, <2>2
<1>3. TypeOK'
  <2>1. jobs' \in Seq({jobs'[i] : i \in DOMAIN jobs'})
    BY OfItsElements
  <2>2. \A i \in DOMAIN jobs' : /\ DOMAIN jobs'[i] = Columns
                                /\ jobs'[i].queue \in Queues
                                /\ jobs'[i].key \in Keys \cup {NULL}
                                /\ jobs'[i].policy \in Names \cup {NULL}
                                /\ jobs'[i].live \in BOOLEAN
    BY DEF TypeOK
  <2> QED
    BY <1>1, <1>2, <2>1, <2>2 DEF TypeOK, RequestType, PoliciesGrow, PolicyRows, QueuesFit
<1>4. KeysAreUnique'
  BY DEF KeysAreUnique, Live
<1>5. BatchesAreWhole'
  <2> SUFFICES ASSUME NEW i \in DOMAIN jobs, jobs[i].kind = "parent"
               PROVE  \E ks \in Batches : \A n \in DOMAIN ks :
                         /\ i + n \in DOMAIN jobs'
                         /\ jobs'[i + n].kind = "item" /\ jobs'[i + n].key = ks[n]
                         /\ jobs'[i + n].queue = jobs'[i].queue
                         /\ jobs'[i + n].live = jobs'[i].live
    BY DEF BatchesAreWhole
  <2>1. PICK ks \in Batches : \A n \in DOMAIN ks :
           /\ i + n \in DOMAIN jobs
           /\ jobs[i + n].kind = "item" /\ jobs[i + n].key = ks[n]
           /\ jobs[i + n].queue = jobs[i].queue
           /\ jobs[i + n].live = jobs[i].live
    BY DEF BatchesAreWhole
  <2> QED
    BY <2>1
<1>6. PoliciesExist'
  <2>1. \A i \in DOMAIN jobs' :
           /\ PolicyExists(jobs[i].policy)
           /\ jobs[i].kind = "single" /\ jobs[i].policy # NULL
                 => jobs[i].maxRetries = policies[jobs[i].policy].maxRetries
    BY DEF PoliciesExist
  <2> QED
    BY <1>2, <2>1 DEF PoliciesExist, PolicyExists, RequestFits, QueuesFit
<1>7. OneJobPerKey'
  <2> SUFFICES ASSUME NEW k \in Keys
               PROVE  Cardinality(answered'[k]) <= 1 /\ answered'[k] \subseteq WithKey(k)'
    BY DEF OneJobPerKey
  <2>1. answered'[k] \subseteq WithKey(k)'
    BY DEF OneJobPerKey, WithKey, Live, TypeOK
  <2>2. \A x, y \in answered'[k] : x = y
    BY <1>4, <2>1, KeysOfBatches DEF KeysAreUnique, WithKey
  <2> QED
    BY <2>1, <2>2, AtMostOne
<1> QED
  BY <1>3, <1>4, <1>5, <1>6, <1>7

LEMMA DeleteQueueKeeps ==
    ASSUME IngestionInv, NEW c \in Clients, NEW q \in Queues, DeleteQueue(c, q)
    PROVE  IngestionInv'
<1>1. /\ queue' = [queue EXCEPT ![q].state = "deleted"]
      /\ jobs' = [i \in DOMAIN jobs |-> IF jobs[i].queue = q THEN [jobs[i] EXCEPT !.live = FALSE]
                                        ELSE jobs[i]]
      /\ answered' = [k \in Keys |-> {i \in answered[k] : jobs[i].queue # q}]
      /\ request' = [request EXCEPT ![c] = NoRequest] /\ UNCHANGED policies
  BY DEF DeleteQueue, Begin
<1>2. QueuesFit
  <2>1. /\ queue \in [Queues -> [state : {"none", "open", "deleted"}, policy : Names \cup {NULL}]]
        /\ queue' = [queue EXCEPT ![q] = [queue[q] EXCEPT !.state = "deleted"]]
    BY <1>1 DEF IngestionInv, TypeOK
  <2>2. \A p \in Queues : queue'[p].policy = queue[p].policy
    BY <2>1
  <2>3. queue' \in [Queues -> [state : {"none", "open", "deleted"}, policy : Names \cup {NULL}]]
    BY <2>1
  <2> QED
    BY <1>1, <2>2, <2>3 DEF QueuesFit, IngestionInv, PoliciesExist, PolicyExists
<1>3. Len(jobs) \in Nat /\ DOMAIN jobs = 1..Len(jobs)
  BY JobsAreSequence DEF IngestionInv
<1>4. DOMAIN jobs' = DOMAIN jobs
  BY <1>1
<1>5. jobs' \in Seq({jobs'[i] : i \in DOMAIN jobs'})
  <2>1. jobs' \in [1..Len(jobs) -> {jobs'[i] : i \in DOMAIN jobs'}]
    BY <1>1, <1>3, <1>4
  <2> QED
    BY <1>3, <2>1, SeqDef
<1>6. \A i \in DOMAIN jobs :
         /\ DOMAIN jobs'[i] = DOMAIN jobs[i]
         /\ jobs'[i].queue = jobs[i].queue /\ jobs'[i].key = jobs[i].key
         /\ jobs'[i].kind = jobs[i].kind /\ jobs'[i].policy = jobs[i].policy
         /\ jobs'[i].maxRetries = jobs[i].maxRetries
         /\ jobs'[i].live = (jobs[i].live /\ jobs[i].queue # q)
  <2> SUFFICES ASSUME NEW i \in DOMAIN jobs
               PROVE  /\ DOMAIN jobs'[i] = DOMAIN jobs[i]
                      /\ jobs'[i].queue = jobs[i].queue /\ jobs'[i].key = jobs[i].key
                      /\ jobs'[i].kind = jobs[i].kind /\ jobs'[i].policy = jobs[i].policy
                      /\ jobs'[i].maxRetries = jobs[i].maxRetries
                      /\ jobs'[i].live = (jobs[i].live /\ jobs[i].queue # q)
    OBVIOUS
  <2>1. jobs[i].live \in BOOLEAN /\ DOMAIN jobs[i] = Columns
    BY DEF IngestionInv, TypeOK
  <2>2. CASE jobs[i].queue = q
    <3>1. jobs'[i] = [jobs[i] EXCEPT !.live = FALSE]
      BY <1>1, <2>2
    <3> QED
      BY <2>1, <2>2, <3>1 DEF Columns
  <2>3. CASE jobs[i].queue # q
    BY <1>1, <2>1, <2>3
  <2> QED
    BY <2>2, <2>3
<1>7. \A i \in DOMAIN jobs : jobs'[i].live \in BOOLEAN /\ (jobs'[i].live => jobs[i].live)
  BY <1>6
<1>8. \A k \in Keys : \A i \in answered'[k] : i \in answered[k] /\ jobs'[i].live
  <2> SUFFICES ASSUME NEW k \in Keys, NEW i \in answered'[k]
               PROVE  i \in answered[k] /\ jobs'[i].live
    OBVIOUS
  <2>1. i \in answered[k] /\ jobs[i].queue # q
    BY <1>1
  <2>2. i \in DOMAIN jobs /\ jobs[i].live
    BY <2>1 DEF IngestionInv, OneJobPerKey, WithKey, Live
  <2> QED
    BY <1>6, <2>1, <2>2
<1>9. answered' \in [Keys -> SUBSET DOMAIN jobs]
  BY <1>1 DEF IngestionInv, TypeOK
<1>10. \A i, j \in DOMAIN jobs :
          jobs[i].queue = jobs[j].queue /\ jobs[i].live = jobs[j].live
              => jobs'[i].live = jobs'[j].live
  BY <1>6
<1>11. PICK S : jobs' \in Seq(S)
  BY <1>5
<1>12. request' = [request EXCEPT ![c] = NoRequest] /\ UNCHANGED policies
  BY <1>1
<1>13. \A i \in DOMAIN jobs :
          /\ DOMAIN jobs'[i] = DOMAIN jobs[i]
          /\ jobs'[i].queue = jobs[i].queue /\ jobs'[i].key = jobs[i].key
          /\ jobs'[i].kind = jobs[i].kind /\ jobs'[i].policy = jobs[i].policy
          /\ jobs'[i].maxRetries = jobs[i].maxRetries
          /\ jobs'[i].live \in BOOLEAN /\ (jobs'[i].live => jobs[i].live)
  BY <1>6, <1>7
<1> QED
  BY <1>2, <1>4, <1>8, <1>9, <1>10, <1>11, <1>12, <1>13, RowsKept

LEMMA FailJobKeeps ==
    ASSUME IngestionInv, NEW i \in DOMAIN jobs, NEW p \in JitterPercents,
           FailJob(i, p)
    PROVE  IngestionInv'
<1>1. PICK a, d : jobs' = [jobs EXCEPT ![i].attempts = a, ![i].delay = d]
  BY DEF FailJob
<1>2. UNCHANGED <<policies, queue, request, answered>>
  BY DEF FailJob
<1>3. QueuesFit
  BY <1>2, PoliciesStay, QueuesStay DEF IngestionInv
<1> DEFINE r == [jobs[i] EXCEPT !.attempts = a, !.delay = d]
<1>4. Len(jobs) \in Nat /\ DOMAIN jobs = 1..Len(jobs)
      /\ jobs \in [1..Len(jobs) -> {jobs[j] : j \in DOMAIN jobs}]
  BY LenProperties DEF IngestionInv, TypeOK
<1>5. jobs' = [jobs EXCEPT ![i] = r]
  <2>1. [[jobs EXCEPT ![i].attempts = a] EXCEPT ![i].delay = d] = [jobs EXCEPT ![i] = r]
    BY <1>4, Zenon
  <2> QED
    BY <1>1, <2>1
<1>6. DOMAIN jobs' = DOMAIN jobs /\ jobs' \in Seq({jobs[j] : j \in DOMAIN jobs} \cup {r})
  <2>1. jobs' \in [1..Len(jobs) -> {jobs[j] : j \in DOMAIN jobs} \cup {r}]
    BY <1>4, <1>5
  <2> QED
    BY <1>4, <1>5, <2>1, SeqDef
<1>7. /\ DOMAIN r = DOMAIN jobs[i]
      /\ r.queue = jobs[i].queue /\ r.key = jobs[i].key /\ r.kind = jobs[i].kind
      /\ r.policy = jobs[i].policy /\ r.maxRetries = jobs[i].maxRetries /\ r.live = jobs[i].live
  <2>1. DOMAIN jobs[i] = Columns
    BY DEF IngestionInv, TypeOK
  <2> QED
    BY <2>1 DEF Columns
<1> HIDE DEF r
<1>8. \A j \in DOMAIN jobs :
         /\ DOMAIN jobs'[j] = DOMAIN jobs[j]
         /\ jobs'[j].queue = jobs[j].queue /\ jobs'[j].key = jobs[j].key
         /\ jobs'[j].kind = jobs[j].kind /\ jobs'[j].policy = jobs[j].policy
         /\ jobs'[j].maxRetries = jobs[j].maxRetries
         /\ jobs'[j].live = jobs[j].live
  BY <1>4, <1>5, <1>7
<1>9. \A j \in DOMAIN jobs : jobs'[j].live \in BOOLEAN /\ (jobs'[j].live => jobs[j].live)
  BY <1>8 DEF IngestionInv, TypeOK
<1>10. \A k \in Keys : \A j \in answered'[k] : j \in answered[k] /\ jobs'[j].live
  BY <1>2, <1>8 DEF IngestionInv, OneJobPerKey, WithKey, Live
<1>11. answered' \in [Keys -> SUBSET DOMAIN jobs]
  BY <1>2 DEF IngestionInv, TypeOK
<1> QED
  BY <1>2, <1>3, <1>6, <1>8, <1>9, <1>10, <1>11, RowsKept

\* Rows that may be appended: they refer to what exists, their keys are free,
\* and a batch among them is whole.
RowsFit(rows) ==
    /\ \A i \in DOMAIN rows :
          /\ DOMAIN rows[i] = Columns
          /\ rows[i].queue \in Queues /\ rows[i].key \in Keys \cup {NULL}
          /\ rows[i].policy \in Names \cup {NULL} /\ PolicyExists(rows[i].policy)
          /\ rows[i].live = TRUE
          /\ rows[i].key # NULL => WithKey(rows[i].key) = {}
          /\ rows[i].kind = "single" /\ rows[i].policy # NULL
                => rows[i].maxRetries = policies[rows[i].policy].maxRetries
          /\ rows[i].kind = "parent" =>
                \E ks \in Batches : \A n \in DOMAIN ks :
                    /\ i + n \in DOMAIN rows
                    /\ rows[i + n].kind = "item" /\ rows[i + n].key = ks[n]
                    /\ rows[i + n].queue = rows[i].queue
    /\ \A i, j \in DOMAIN rows : rows[i].key = rows[j].key /\ rows[i].key # NULL => i = j

\* What an insertion does to the table: n rows were there, m are new.
RowsAdded(rows, n, m) ==
    /\ n = Len(jobs) /\ DOMAIN jobs = 1..n /\ DOMAIN rows = 1..m /\ DOMAIN jobs' = 1..(n + m)
    /\ jobs' \in Seq({jobs'[i] : i \in DOMAIN jobs'})
    /\ \A i \in 1..n : i \in 1..(n + m) /\ jobs'[i] = jobs[i]
    /\ \A i \in 1..m : n + i \in 1..(n + m) /\ jobs'[n + i] = rows[i]
    /\ \A i \in 1..(n + m) : i \in 1..n \/ \E j \in 1..m : i = n + j

LEMMA Appended ==
    ASSUME TypeOK, NEW S, NEW rows \in Seq(S), jobs' = jobs \o rows
    PROVE  \E n, m \in Nat : RowsAdded(rows, n, m)
<1>1. PICK n \in Nat, m \in Nat :
         n = Len(jobs) /\ DOMAIN jobs = 1..n /\ m = Len(rows) /\ DOMAIN rows = 1..m
  BY JobsAreSequence, LenProperties
<1>2. PICK U : jobs \in Seq(U) /\ rows \in Seq(U)
  <2>1. PICK T : jobs \in Seq(T)
    BY DEF TypeOK
  <2>2. jobs \in Seq(T \cup S) /\ rows \in Seq(T \cup S)
    BY <2>1, SeqMonotonic
  <2> QED
    BY <2>2
<1>3. /\ jobs' \in Seq(U) /\ Len(jobs') = n + m
      /\ \A i \in 1..(n + m) : jobs'[i] = IF i <= n THEN jobs[i] ELSE rows[i - n]
  BY <1>1, <1>2, ConcatProperties
<1>4. DOMAIN jobs' = 1..(n + m)
  BY <1>3, LenProperties
<1>5. jobs' \in Seq({jobs'[i] : i \in DOMAIN jobs'})
  <2>1. PICK s : s = jobs'
    OBVIOUS
  <2>2. s \in Seq(U)
    BY <1>3, <2>1
  <2>3. s \in Seq({s[i] : i \in DOMAIN s})
    BY <2>2, OfItsElements
  <2>4. {s[i] : i \in DOMAIN s} = {jobs'[i] : i \in DOMAIN jobs'}
    BY <2>1
  <2> QED
    BY <2>1, <2>3, <2>4
<1>6. \A i \in 1..n : i \in 1..(n + m) /\ i <= n
  BY <1>1
<1>7. \A i \in 1..m : n + i \in 1..(n + m) /\ ~(n + i <= n) /\ (n + i) - n = i
  BY <1>1
<1>8. \A i \in 1..(n + m) : i \in 1..n \/ \E j \in 1..m : i = n + j
  <2> SUFFICES ASSUME NEW i \in 1..(n + m), i \notin 1..n PROVE \E j \in 1..m : i = n + j
    OBVIOUS
  <2>1. i - n \in 1..m /\ i = n + (i - n)
    BY <1>1
  <2> QED
    BY <2>1
<1>9. \A i \in 1..n : jobs'[i] = jobs[i]
  BY <1>3, <1>6
<1>10. \A i \in 1..m : jobs'[n + i] = rows[i]
  BY <1>3, <1>7
<1>11. RowsAdded(rows, n, m)
  BY <1>1, <1>4, <1>5, <1>6, <1>7, <1>8, <1>9, <1>10 DEF RowsAdded
<1> QED
  BY <1>11

LEMMA InsertedTypes ==
    ASSUME TypeOK, NEW rows, RowsFit(rows), NEW n \in Nat, NEW m \in Nat, RowsAdded(rows, n, m),
           NEW i \in 1..(n + m)
    PROVE  /\ DOMAIN jobs'[i] = Columns /\ jobs'[i].queue \in Queues
           /\ jobs'[i].key \in Keys \cup {NULL} /\ jobs'[i].policy \in Names \cup {NULL}
           /\ jobs'[i].live \in BOOLEAN
<1>1. CASE i \in 1..n
  <2>1. jobs'[i] = jobs[i] /\ i \in DOMAIN jobs
    BY <1>1 DEF RowsAdded
  <2> QED
    BY <2>1 DEF TypeOK
<1>2. CASE i \notin 1..n
  <2>1. PICK j \in 1..m : i = n + j
    BY <1>2 DEF RowsAdded
  <2>2. jobs'[i] = rows[j] /\ j \in DOMAIN rows
    BY <2>1 DEF RowsAdded
  <2>3. rows[j].live \in BOOLEAN
    BY <2>2 DEF RowsFit
  <2> QED
    BY <2>2, <2>3 DEF RowsFit
<1> QED
  BY <1>1, <1>2

LEMMA InsertedLive ==
    ASSUME NEW rows, RowsFit(rows), NEW n \in Nat, NEW m \in Nat, RowsAdded(rows, n, m)
    PROVE  /\ \A i \in 1..n : i \in Live' <=> i \in Live
           /\ \A i \in 1..m : n + i \in Live'
<1>1. \A i \in 1..m : rows[i].live = TRUE
  BY DEF RowsAdded, RowsFit
<1>2. \A i \in 1..n : i \in DOMAIN jobs' /\ i \in DOMAIN jobs /\ jobs'[i] = jobs[i]
  BY DEF RowsAdded
<1>3. \A i \in 1..m : n + i \in DOMAIN jobs' /\ jobs'[n + i] = rows[i]
  BY DEF RowsAdded
<1>4. \A i \in 1..m : jobs'[n + i].live
  BY <1>1, <1>3
<1> QED
  BY <1>2, <1>3, <1>4 DEF Live

LEMMA InsertedKeys ==
    ASSUME KeysAreUnique, NEW rows, RowsFit(rows), NEW n \in Nat, NEW m \in Nat,
           RowsAdded(rows, n, m)
    PROVE  KeysAreUnique'
<1> SUFFICES ASSUME NEW i \in Live', NEW j \in Live', jobs'[i].key = jobs'[j].key,
                    jobs'[i].key # NULL
             PROVE  i = j
  BY DEF KeysAreUnique
<1>1. i \in 1..(n + m) /\ j \in 1..(n + m)
  BY DEF Live, RowsAdded
<1>5. \A x \in 1..n : x \in Live' => x \in Live
  BY InsertedLive
<1>2. ASSUME NEW x \in 1..n, x \in Live, NEW y \in 1..m, rows[y].key # NULL
      PROVE  jobs[x].key # rows[y].key
  <2>1. WithKey(rows[y].key) = {}
    BY <1>2 DEF RowsFit, RowsAdded
  <2> QED
    BY <1>2, <2>1 DEF WithKey
<1>3. CASE i \in 1..n
  <2>1. i \in Live /\ jobs'[i] = jobs[i]
    BY <1>5, <1>3 DEF RowsAdded
  <2>2. CASE j \in 1..n
    <3>1. j \in Live /\ jobs'[j] = jobs[j]
      BY <1>5, <2>2 DEF RowsAdded
    <3> QED
      BY <2>1, <3>1 DEF KeysAreUnique
  <2>3. CASE j \notin 1..n
    <3>1. PICK y \in 1..m : jobs'[j] = rows[y]
      BY <1>1, <2>3 DEF RowsAdded
    <3> QED
      BY <1>2, <1>3, <2>1, <3>1
  <2> QED
    BY <2>2, <2>3
<1>4. CASE i \notin 1..n
  <2>1. PICK x \in 1..m : i = n + x /\ jobs'[i] = rows[x]
    BY <1>1, <1>4 DEF RowsAdded
  <2>2. CASE j \in 1..n
    <3>1. j \in Live /\ jobs'[j] = jobs[j]
      BY <1>5, <2>2 DEF RowsAdded
    <3> QED
      BY <1>2, <2>1, <2>2, <3>1
  <2>3. CASE j \notin 1..n
    <3>1. PICK y \in 1..m : j = n + y /\ jobs'[j] = rows[y]
      BY <1>1, <2>3 DEF RowsAdded
    <3>2. x \in DOMAIN rows /\ y \in DOMAIN rows
      BY DEF RowsAdded
    <3>3. x = y
      BY <2>1, <3>1, <3>2 DEF RowsFit
    <3> QED
      BY <2>1, <3>1, <3>3
  <2> QED
    BY <2>2, <2>3
<1> QED
  BY <1>3, <1>4

LEMMA InsertedBatches ==
    ASSUME BatchesAreWhole, NEW rows, RowsFit(rows), NEW n \in Nat, NEW m \in Nat,
           RowsAdded(rows, n, m)
    PROVE  BatchesAreWhole'
<1> DEFINE Whole(i, ks, l) ==
              /\ i + l \in DOMAIN jobs'
              /\ jobs'[i + l].kind = "item" /\ jobs'[i + l].key = ks[l]
              /\ jobs'[i + l].queue = jobs'[i].queue
              /\ jobs'[i + l].live = jobs'[i].live
<1> SUFFICES ASSUME NEW i \in DOMAIN jobs', jobs'[i].kind = "parent"
             PROVE  \E ks \in Batches : \A l \in DOMAIN ks : Whole(i, ks, l)
  BY DEF BatchesAreWhole
<1>1. i \in 1..(n + m)
  BY DEF RowsAdded
<1>2. CASE i \in 1..n
  <2>1. i \in DOMAIN jobs /\ jobs'[i] = jobs[i] /\ jobs[i].kind = "parent"
    BY <1>2 DEF RowsAdded
  <2>2. PICK ks \in Batches : \A l \in DOMAIN ks :
           /\ i + l \in DOMAIN jobs
           /\ jobs[i + l].kind = "item" /\ jobs[i + l].key = ks[l]
           /\ jobs[i + l].queue = jobs[i].queue
           /\ jobs[i + l].live = jobs[i].live
    BY <2>1 DEF BatchesAreWhole
  <2>3. \A j \in DOMAIN jobs : j \in DOMAIN jobs' /\ jobs'[j] = jobs[j]
    BY DEF RowsAdded
  <2>4. \A l \in DOMAIN ks : Whole(i, ks, l)
    BY <2>1, <2>2, <2>3
  <2> QED
    BY <2>4
<1>3. CASE i \notin 1..n
  <2>1. PICK x \in 1..m : i = n + x /\ jobs'[i] = rows[x]
    BY <1>1, <1>3 DEF RowsAdded
  <2>2. x \in DOMAIN rows /\ rows[x].kind = "parent" /\ DOMAIN rows = 1..m
    BY <2>1 DEF RowsAdded
  <2>3. PICK ks \in Batches : \A l \in DOMAIN ks :
           /\ x + l \in DOMAIN rows
           /\ rows[x + l].kind = "item" /\ rows[x + l].key = ks[l]
           /\ rows[x + l].queue = rows[x].queue
    BY <2>2 DEF RowsFit
  <2>4. \A l \in DOMAIN ks : l \in Nat
    <3>1. ks \in Seq(Keys \cup {NULL})
      BY KeysOfBatches
    <3> QED
      BY <3>1, LenProperties
  <2> SUFFICES ASSUME NEW l \in DOMAIN ks PROVE Whole(i, ks, l)
    OBVIOUS
  <2>5. x + l \in 1..m /\ i + l = n + (x + l)
    BY <2>1, <2>2, <2>3, <2>4
  <2>6. i + l \in DOMAIN jobs' /\ jobs'[i + l] = rows[x + l]
    BY <2>5 DEF RowsAdded
  <2>7. rows[x + l].live = TRUE /\ rows[x].live = TRUE
    BY <2>2, <2>3 DEF RowsFit
  <2> QED
    BY <2>1, <2>3, <2>6, <2>7
<1> QED
  BY <1>2, <1>3

LEMMA InsertedPolicies ==
    ASSUME PoliciesExist, NEW rows, RowsFit(rows), NEW n \in Nat, NEW m \in Nat,
           RowsAdded(rows, n, m), NEW i \in DOMAIN jobs'
    PROVE  /\ PolicyExists(jobs'[i].policy)
           /\ jobs'[i].kind = "single" /\ jobs'[i].policy # NULL
                 => jobs'[i].maxRetries = policies[jobs'[i].policy].maxRetries
<1>1. i \in 1..(n + m)
  BY DEF RowsAdded
<1>2. CASE i \in 1..n
  <2>1. i \in DOMAIN jobs /\ jobs'[i] = jobs[i]
    BY <1>2 DEF RowsAdded
  <2> QED
    BY <2>1 DEF PoliciesExist, PolicyExists
<1>3. CASE i \notin 1..n
  <2>1. PICK x \in 1..m : jobs'[i] = rows[x] /\ x \in DOMAIN rows
    BY <1>1, <1>3 DEF RowsAdded
  <2> QED
    BY <2>1 DEF RowsFit, PolicyExists
<1> QED
  BY <1>2, <1>3

LEMMA InsertedAnswers ==
    ASSUME OneJobPerKey, NEW rows, RowsFit(rows), NEW n \in Nat, NEW m \in Nat,
           RowsAdded(rows, n, m), NEW k \in Keys, NEW x,
           x \in answered[k] \/ \E i \in DOMAIN rows : rows[i].key = k /\ x = n + i
    PROVE  x \in Live' /\ jobs'[x].key = k
<1>1. CASE x \in answered[k]
  <2>1. x \in Live /\ jobs[x].key = k /\ x \in DOMAIN jobs
    BY <1>1 DEF OneJobPerKey, WithKey, Live
  <2>2. x \in 1..n /\ jobs'[x] = jobs[x]
    BY <2>1 DEF RowsAdded
  <2> QED
    BY <2>1, <2>2, InsertedLive
<1>2. ASSUME NEW i \in DOMAIN rows, rows[i].key = k, x = n + i
      PROVE  x \in Live' /\ jobs'[x].key = k
  <2>1. i \in 1..m /\ jobs'[n + i] = rows[i]
    BY DEF RowsAdded
  <2> QED
    BY <1>2, <2>1, InsertedLive
<1> QED
  BY <1>1, <1>2

LEMMA InsertKeeps ==
    ASSUME IngestionInv, UNCHANGED <<policies, queue>>,
           NEW c \in Clients, request' = [request EXCEPT ![c] = NoRequest],
           NEW S, NEW rows \in Seq(S), RowsFit(rows), jobs' = jobs \o rows,
           answered' \in [Keys -> SUBSET DOMAIN jobs'],
           \A k \in Keys : answered'[k] = answered[k] \/
              \E i \in DOMAIN rows : rows[i].key = k /\ answered'[k] = answered[k] \cup {Len(jobs) + i}
    PROVE  IngestionInv'
<1> USE DEF IngestionInv
<1>1. PICK n \in Nat, m \in Nat : RowsAdded(rows, n, m)
  BY Appended
<1>2. PoliciesGrow /\ QueuesFit
  BY PoliciesStay, QueuesStay
<1>3. request' \in [Clients -> RequestType] /\ \A d \in Clients : RequestFits(request'[d])
  BY <1>2, NoRequestFits, RequestsFit
<1>4. DOMAIN jobs' = 1..(n + m) /\ jobs' \in Seq({jobs'[i] : i \in DOMAIN jobs'}) /\ n = Len(jobs)
  BY <1>1 DEF RowsAdded
<1>5. \A i \in DOMAIN jobs' : /\ DOMAIN jobs'[i] = Columns
                              /\ jobs'[i].queue \in Queues
                              /\ jobs'[i].key \in Keys \cup {NULL}
                              /\ jobs'[i].policy \in Names \cup {NULL}
                              /\ jobs'[i].live \in BOOLEAN
  BY <1>1, <1>4, InsertedTypes
<1>6. TypeOK'
  BY <1>2, <1>3, <1>4, <1>5 DEF TypeOK, RequestType, PoliciesGrow, PolicyRows, QueuesFit
<1>7. KeysAreUnique' /\ BatchesAreWhole'
  BY <1>1, InsertedKeys, InsertedBatches
<1>8. \A i \in DOMAIN jobs' :
         /\ PolicyExists(jobs'[i].policy)
         /\ jobs'[i].kind = "single" /\ jobs'[i].policy # NULL
               => jobs'[i].maxRetries = policies[jobs'[i].policy].maxRetries
  BY <1>1, InsertedPolicies
<1>9. PoliciesExist'
  BY <1>2, <1>3, <1>8 DEF PoliciesExist, PolicyExists, RequestFits, QueuesFit
<1>10. ASSUME NEW k \in Keys
       PROVE  Cardinality(answered'[k]) <= 1 /\ answered'[k] \subseteq WithKey(k)'
  <2>1. OneJobPerKey /\ RowsFit(rows) /\ RowsAdded(rows, n, m)
    BY <1>1
  <2>2. \A x \in answered'[k] :
           x \in answered[k] \/ \E i \in DOMAIN rows : rows[i].key = k /\ x = n + i
    BY <1>4
  <2>3. \A x \in answered'[k] : x \in Live' /\ jobs'[x].key = k
    <3> HIDE DEF IngestionInv
    <3> SUFFICES ASSUME NEW x \in answered'[k] PROVE x \in Live' /\ jobs'[x].key = k
      OBVIOUS
    <3>1. x \in answered[k] \/ \E i \in DOMAIN rows : rows[i].key = k /\ x = n + i
      BY <2>2
    <3> QED
      BY <2>1, <3>1, InsertedAnswers
  <2>4. \A x, y \in answered'[k] : x = y
    <3> SUFFICES ASSUME NEW x \in answered'[k], NEW y \in answered'[k] PROVE x = y
      OBVIOUS
    <3>1. x \in Live' /\ y \in Live' /\ jobs'[x].key = k /\ jobs'[y].key = k /\ k # NULL
      BY <2>3, KeysOfBatches
    <3> QED
      BY <1>7, <3>1 DEF KeysAreUnique
  <2> QED
    BY <2>3, <2>4, AtMostOne DEF WithKey
<1>11. OneJobPerKey'
  BY <1>10 DEF OneJobPerKey
<1> QED
  BY <1>6, <1>7, <1>9, <1>11

\* One job: the unique index refuses a second with its key.
LEMMA InsertJobKeeps ==
    ASSUME IngestionInv, NEW c \in Clients, InsertJob(c)
    PROVE  IngestionInv'
<1> DEFINE r == request[c]
           job == NewJob(r.queue, r.key, "single", r.policy, r.maxRetries)
<1>1. UNCHANGED <<policies, queue>> /\ request' = [request EXCEPT ![c] = NoRequest] /\ r.pc = "insert"
  BY DEF InsertJob, Answer, At
<1>2. r \in RequestType
  BY DEF IngestionInv, TypeOK, RequestType
<1>3. CASE ~MayInsert(r.queue, <<r.key>>)
  <2>1. UNCHANGED <<jobs, answered>>
    BY <1>3 DEF InsertJob
  <2>2. PoliciesGrow /\ QueuesFit
    BY <1>1, PoliciesStay, QueuesStay DEF IngestionInv
  <2> QED
    BY <1>1, <2>1, <2>2, NoRequestFits, AnswersStay, JobsStay
<1>4. CASE MayInsert(r.queue, <<r.key>>)
  <2>1. /\ jobs' = Append(jobs, job)
        /\ answered' = IF r.key = NULL THEN answered
                       ELSE [answered EXCEPT ![r.key] = @ \cup {Len(jobs) + 1}]
    BY <1>4 DEF InsertJob
  <2>2. /\ DOMAIN job = Columns /\ job.queue = r.queue /\ job.key = r.key /\ job.kind = "single"
        /\ job.policy = r.policy /\ job.maxRetries = r.maxRetries /\ job.live = TRUE
    BY DEF NewJob, Columns
  <2>3. /\ r.key # NULL => WithKey(r.key) = {}
        /\ r.key \in Keys \cup {NULL} /\ r.policy \in Names \cup {NULL} /\ r.queue \in Queues
        /\ PolicyExists(r.policy)
        /\ r.policy # NULL => r.maxRetries = policies[r.policy].maxRetries
    BY <1>1, <1>2, <1>4 DEF MayInsert, Fresh, RequestType, IngestionInv, PoliciesExist
  <2>4. PICK j : j = job
    OBVIOUS
  <2>5. <<j>> \in Seq({j}) /\ DOMAIN <<j>> = {1} /\ <<j>>[1] = j
    OBVIOUS
  <2>6. RowsFit(<<j>>)
    <3>1. /\ DOMAIN j = Columns /\ j.queue \in Queues /\ j.key \in Keys \cup {NULL}
          /\ j.policy \in Names \cup {NULL} /\ PolicyExists(j.policy) /\ j.live = TRUE
          /\ j.key # NULL => WithKey(j.key) = {}
          /\ j.policy # NULL => j.maxRetries = policies[j.policy].maxRetries
          /\ j.kind = "single"
      BY <2>2, <2>3, <2>4
    <3>2. PICK rows : rows = <<j>> /\ DOMAIN rows = {1} /\ rows[1] = j
      BY <2>5
    <3>3. RowsFit(rows)
      BY <3>1, <3>2 DEF RowsFit
    <3> QED
      BY <3>2, <3>3
  <2>7. PICK T : jobs \in Seq(T)
    BY DEF IngestionInv, TypeOK
  <2>8. jobs' = jobs \o <<j>>
    BY <2>1, <2>4, <2>7
  <2>9. Len(jobs) \in Nat /\ DOMAIN jobs = 1..Len(jobs) /\ DOMAIN jobs' = 1..(Len(jobs) + 1)
    BY <2>1, <2>7, JobsAreSequence DEF IngestionInv
  <2>10. answered' \in [Keys -> SUBSET DOMAIN jobs']
    BY <2>1, <2>3, <2>9 DEF IngestionInv, TypeOK
  <2>11. \A k \in Keys : answered'[k] = answered[k] \/
            \E i \in DOMAIN <<j>> : <<j>>[i].key = k /\ answered'[k] = answered[k] \cup {Len(jobs) + i}
    BY <2>1, <2>2, <2>3, <2>4, <2>5 DEF IngestionInv, TypeOK
  <2> QED
    BY <1>1, <2>5, <2>6, <2>8, <2>10, <2>11, InsertKeeps
<1> QED
  BY <1>3, <1>4

\* A batch: all of its rows, or none.
LEMMA InsertBatchKeeps ==
    ASSUME IngestionInv, NEW c \in Clients, NEW ks \in Batches, InsertBatch(c, ks)
    PROVE  IngestionInv'
<1> DEFINE r == request[c]
           parent == NewJob(r.queue, NULL, "parent", NULL, DefaultMaxRetries)
           item(k) == NewJob(r.queue, k, "item", r.policy, DefaultMaxRetries)
           items == [i \in DOMAIN ks |-> item(ks[i])]
           S == {parent} \cup {item(k) : k \in Keys \cup {NULL}}
<1>1. /\ UNCHANGED <<policies, queue, answered>> /\ request' = [request EXCEPT ![c] = NoRequest]
      /\ r.pc = "batch" /\ jobs' = jobs \o BatchRows(r, ks)
  BY DEF InsertBatch, Answer, At
<1>2. r \in RequestType /\ r.queue \in Queues /\ r.policy \in Names \cup {NULL} /\ PolicyExists(r.policy)
  BY <1>1 DEF IngestionInv, TypeOK, RequestType, PoliciesExist
<1>3. PICK T : jobs \in Seq(T)
  BY DEF IngestionInv, TypeOK
<1>4. Len(ks) \in Nat /\ DOMAIN ks = 1..Len(ks) /\ ks \in [1..Len(ks) -> Keys \cup {NULL}]
  BY KeysOfBatches, LenProperties
<1>5. CASE ~MayInsert(r.queue, ks)
  <2>1. BatchRows(r, ks) = << >>
    BY <1>5 DEF BatchRows
  <2>2. UNCHANGED jobs
    BY <1>1, <1>3, <2>1, ConcatEmptySeq
  <2>3. PoliciesGrow /\ QueuesFit
    BY <1>1, PoliciesStay, QueuesStay DEF IngestionInv
  <2> QED
    BY <1>1, <2>2, <2>3, NoRequestFits, AnswersStay, JobsStay
<1>6. CASE MayInsert(r.queue, ks)
  <2>1. BatchRows(r, ks) = <<parent>> \o items
    BY <1>6 DEF BatchRows
  <2>2. items \in Seq(S) /\ Len(items) = Len(ks)
    <3>1. items \in [1..Len(ks) -> S]
      BY <1>4
    <3> QED
      BY <1>4, <3>1, SeqDef
  <2>3. <<parent>> \in Seq(S) /\ Len(<<parent>>) = 1 /\ <<parent>>[1] = parent
    OBVIOUS
  <2>4. /\ DOMAIN parent = Columns /\ parent.queue = r.queue /\ parent.key = NULL
        /\ parent.kind = "parent" /\ parent.policy = NULL /\ parent.live = TRUE
    BY DEF NewJob, Columns
  <2>5. \A i \in 1..Len(ks) :
           /\ DOMAIN items[i] = Columns /\ items[i].queue = r.queue /\ items[i].key = ks[i]
           /\ items[i].kind = "item" /\ items[i].policy = r.policy /\ items[i].live = TRUE
    BY <1>4 DEF NewJob, Columns
  <2>6. PICK rows : rows = BatchRows(r, ks)
    OBVIOUS
  <2> HIDE DEF items, parent, S
  <2>7. /\ rows \in Seq(S) /\ Len(rows) = Len(ks) + 1
        /\ rows[1] = parent /\ \A i \in 1..Len(ks) : rows[1 + i] = items[i]
    <3>1. /\ rows \in Seq(S) /\ Len(rows) = 1 + Len(ks)
          /\ \A i \in 1..(1 + Len(ks)) :
                rows[i] = IF i <= 1 THEN <<parent>>[i] ELSE items[i - 1]
      BY <2>1, <2>2, <2>3, <2>6, ConcatProperties
    <3>2. 1 \in 1..(1 + Len(ks)) /\ \A i \in 1..Len(ks) :
             1 + i \in 1..(1 + Len(ks)) /\ ~(1 + i <= 1) /\ (1 + i) - 1 = i
      BY <1>4
    <3> QED
      BY <1>4, <2>3, <3>1, <3>2
  <2>8. DOMAIN rows = 1..(Len(ks) + 1)
    BY <2>7, LenProperties
  <2>9. \A i \in DOMAIN rows : i = 1 \/ \E x \in 1..Len(ks) : i = 1 + x
    <3> SUFFICES ASSUME NEW i \in 1..(Len(ks) + 1), i # 1 PROVE \E x \in 1..Len(ks) : i = 1 + x
      BY <2>8
    <3>1. i - 1 \in 1..Len(ks) /\ i = 1 + (i - 1)
      BY <1>4
    <3> QED
      BY <3>1
  <2>10. /\ \A i \in 1..Len(ks) : ks[i] # NULL => WithKey(ks[i]) = {}
         /\ \A i, j \in 1..Len(ks) : ks[i] = ks[j] => i = j \/ ks[i] = NULL
    BY <1>4, <1>6 DEF MayInsert, Fresh
  <2>11. ASSUME NEW i \in DOMAIN rows
         PROVE  /\ DOMAIN rows[i] = Columns
                /\ rows[i].queue \in Queues /\ rows[i].key \in Keys \cup {NULL}
                /\ rows[i].policy \in Names \cup {NULL} /\ PolicyExists(rows[i].policy)
                /\ rows[i].live = TRUE
                /\ rows[i].key # NULL => WithKey(rows[i].key) = {}
                /\ rows[i].kind # "single"
                /\ rows[i].kind = "parent" => i = 1
    <3>1. CASE i = 1
      BY <1>2, <2>4, <2>7, <3>1 DEF PolicyExists
    <3>2. ASSUME NEW x \in 1..Len(ks), i = 1 + x
          PROVE  /\ rows[i] = items[x]
                 /\ ks[x] \in Keys \cup {NULL}
      BY <1>4, <2>7, <3>2
    <3>3. CASE i # 1
      <4>1. PICK x \in 1..Len(ks) : i = 1 + x
        BY <2>9, <3>3
      <4>2. /\ DOMAIN rows[i] = Columns /\ rows[i].queue = r.queue /\ rows[i].key = ks[x]
            /\ rows[i].kind = "item" /\ rows[i].policy = r.policy /\ rows[i].live = TRUE
        BY <2>5, <3>2, <4>1
      <4> QED
        BY <1>2, <2>10, <3>2, <4>1, <4>2
    <3> QED
      BY <3>1, <3>3
  <2>12. \A n \in DOMAIN ks : /\ 1 + n \in DOMAIN rows
                              /\ rows[1 + n].kind = "item" /\ rows[1 + n].key = ks[n]
                              /\ rows[1 + n].queue = rows[1].queue
    BY <1>4, <2>4, <2>5, <2>7, <2>8
  <2>13. \A i, j \in DOMAIN rows : rows[i].key = rows[j].key /\ rows[i].key # NULL => i = j
    <3> SUFFICES ASSUME NEW i \in DOMAIN rows, NEW j \in DOMAIN rows,
                        rows[i].key = rows[j].key, rows[i].key # NULL
                 PROVE  i = j
      OBVIOUS
    <3>1. i # 1 /\ j # 1
      BY <2>4, <2>7
    <3>2. PICK x \in 1..Len(ks), y \in 1..Len(ks) : i = 1 + x /\ j = 1 + y
      BY <2>9, <3>1
    <3>3. rows[i].key = ks[x] /\ rows[j].key = ks[y]
      BY <2>5, <2>7, <3>2
    <3> QED
      BY <2>10, <3>2, <3>3
  <2>14. RowsFit(rows)
    <3>1. \A i \in DOMAIN rows : rows[i].kind = "parent" =>
             \E b \in Batches : \A n \in DOMAIN b :
                 /\ i + n \in DOMAIN rows
                 /\ rows[i + n].kind = "item" /\ rows[i + n].key = b[n]
                 /\ rows[i + n].queue = rows[i].queue
      <4> SUFFICES ASSUME NEW i \in DOMAIN rows, rows[i].kind = "parent"
                   PROVE  \E b \in Batches : \A n \in DOMAIN b :
                             /\ i + n \in DOMAIN rows
                             /\ rows[i + n].kind = "item" /\ rows[i + n].key = b[n]
                             /\ rows[i + n].queue = rows[i].queue
        OBVIOUS
      <4>1. i = 1
        BY <2>11
      <4> WITNESS ks \in Batches
      <4> QED
        BY <2>12, <4>1
    <3> QED
      BY <2>11, <2>13, <3>1 DEF RowsFit
  <2>15. DOMAIN jobs \subseteq DOMAIN jobs'
    <3>1. jobs \in Seq(T \cup S) /\ rows \in Seq(T \cup S)
      BY <1>3, <2>7, SeqMonotonic
    <3>2. jobs' \in Seq(T \cup S) /\ Len(jobs') = Len(jobs) + Len(rows)
      BY <1>1, <2>6, <3>1, ConcatProperties
    <3> QED
      BY <3>1, <3>2, LenProperties
  <2>16. answered' \in [Keys -> SUBSET DOMAIN jobs'] /\ \A k \in Keys : answered'[k] = answered[k]
    BY <1>1, <2>15 DEF IngestionInv, TypeOK
  <2> QED
    BY <1>1, <2>6, <2>7, <2>14, <2>16, InsertKeeps
<1> QED
  BY <1>5, <1>6

(***************************************************************************)
(* The theorems.                                                           *)
(***************************************************************************)
LEMMA InitIngestionInv == Init => IngestionInv
<1> SUFFICES ASSUME Init PROVE IngestionInv
  OBVIOUS
<1>1. jobs = << >> /\ DOMAIN jobs = {} /\ jobs \in Seq({jobs[i] : i \in DOMAIN jobs})
  BY DEF Init
<1>2. \A k \in Keys : answered[k] = {} /\ Cardinality(answered[k]) <= 1
  BY FS_EmptySet DEF Init
<1>3. NoRequest \in RequestType
  BY DEF NoRequest, RequestType
<1>4. queue \in [Queues -> [state : {"none", "open", "deleted"}, policy : Names \cup {NULL}]]
      /\ \A q \in Queues : queue[q].policy = NULL
  <2>1. \A q \in Queues : queue[q] = NoQueue \/ queue[q] = [NoQueue EXCEPT !.state = "open"]
    BY DEF Init
  <2>2. /\ NoQueue \in [state : {"none", "open", "deleted"}, policy : Names \cup {NULL}]
        /\ NoQueue.policy = NULL
        /\ [NoQueue EXCEPT !.state = "open"]
              \in [state : {"none", "open", "deleted"}, policy : Names \cup {NULL}]
        /\ [NoQueue EXCEPT !.state = "open"].policy = NULL
    BY DEF NoQueue
  <2>3. queue = [q \in Queues |-> queue[q]]
    BY DEF Init
  <2> QED
    BY <2>1, <2>2, <2>3
<1>5. TypeOK
  BY <1>1, <1>3, <1>4 DEF Init, TypeOK, RequestType
<1>6. OneJobPerKey /\ KeysAreUnique /\ BatchesAreWhole
  BY <1>1, <1>2 DEF OneJobPerKey, KeysAreUnique, BatchesAreWhole, Live
<1>7. PoliciesExist
  BY <1>1, <1>4 DEF Init, PoliciesExist, PolicyExists, NoRequest
<1> QED
  BY <1>5, <1>6, <1>7 DEF IngestionInv

\* Every step preserves the invariant.
LEMMA NextIngestionInv == IngestionInv /\ [Next]_vars => IngestionInv'
<1> SUFFICES ASSUME IngestionInv, [Next]_vars PROVE IngestionInv'
  OBVIOUS
<1>1. CASE UNCHANGED vars
  BY <1>1 DEF IngestionInv, TypeOK, OneJobPerKey, KeysAreUnique, BatchesAreWhole, PoliciesExist,
              PolicyExists, WithKey, Live, vars
<1>2. ASSUME NEW c \in Clients, Call(c) PROVE IngestionInv'
  BY <1>2, CountPoliciesKeeps, CreatePolicyKeeps, CreateQueueCheckKeeps, UpdateQueueKeeps,
     DeleteQueueKeeps, ReadQueueKeeps, ReadQueueForBatchKeeps DEF Call
<1>3. ASSUME NEW c \in Clients, Serve(c) PROVE IngestionInv'
  BY <1>3, ProvisionKeeps, CreateQueueKeeps, FindByKeyKeeps, InsertJobKeeps, ReadPolicyKeeps,
     InsertBatchKeeps DEF Serve
<1>4. ASSUME NEW i \in DOMAIN jobs, NEW p \in JitterPercents, FailJob(i, p) PROVE IngestionInv'
  BY <1>4, FailJobKeeps
<1> QED
  BY <1>1, <1>2, <1>3, <1>4 DEF Next

\* The invariant holds in every reachable state.
THEOREM IngestionInvariance == Spec => []IngestionInv
<1>1. Init => IngestionInv
  BY InitIngestionInv
<1>2. IngestionInv /\ [Next]_vars => IngestionInv'
  BY NextIngestionInv
<1> QED
  BY <1>1, <1>2, PTL DEF Spec

\* All requests with one key are answered with one job.
THEOREM KeyNamesOneJob == Spec => []OneJobPerKey
<1>1. IngestionInv => OneJobPerKey
  BY DEF IngestionInv
<1> QED
  BY <1>1, IngestionInvariance, PTL

\* A batch exists with all of its items or not at all.
THEOREM BatchWhole == Spec => []BatchIsWhole
<1>1. IngestionInv => BatchIsWhole
  BY DEF IngestionInv, BatchesAreWhole, BatchIsWhole
<1> QED
  BY <1>1, IngestionInvariance, PTL

\* The policy that gives a job its budget is the one that gives it its delays.
THEOREM BudgetIsOfPolicy == Spec => []BudgetOfPolicy
<1>1. IngestionInv => BudgetOfPolicy
  BY DEF IngestionInv, PoliciesExist, BudgetOfPolicy, Live
<1> QED
  BY <1>1, IngestionInvariance, PTL
(***************************************************************************)
(* The delays. That they are bounded rests on the numbers being numbers    *)
(* and on a policy that never changes once it exists.                      *)
(***************************************************************************)
\* Without the cap and the jitter.
LEMMA RawDelayType ==
    ASSUME NEW p \in Policies, NEW n \in Nat \ {0}
    PROVE  RawDelay(p, n) \in Int
<1>1. /\ p.initial \in Int /\ p.multiplier \in Int /\ p.multiplier # 0
      /\ n \in Int /\ n - 1 \in Nat
  BY DEF Policies
<1>2. p.multiplier ^ (n - 1) \in Int
  BY <1>1
<1>3. p.initial * n \in Int /\ p.initial * p.multiplier ^ (n - 1) \in Int
  BY <1>1, <1>2
<1> QED
  BY <1>1, <1>3 DEF RawDelay

\* The delay of a policy does not exceed its maximum, but for the jitter.
LEMMA DelayBound ==
    ASSUME NEW p \in Policies, NEW n \in Nat \ {0}, NEW percent \in 75..125
    PROVE  /\ Delay(p, n, percent) \in Int
           /\ 4 * Delay(p, n, percent) <= IF p.jitter THEN 5 * p.max + 2 ELSE 4 * p.max
<1> DEFINE c == CappedDelay(p, n)
<1>1. p.max \in Nat /\ p.jitter \in BOOLEAN
  BY DEF Policies
<1>2. c \in Int /\ c <= p.max
  BY <1>1, RawDelayType DEF CappedDelay, Lesser
<1> HIDE DEF c
<1>3. /\ Jittered(c, percent) \in Int
      /\ 4 * Jittered(c, percent) <= 5 * p.max + 2
  <2>1. c * percent <= p.max * 125
    <3>1. CASE c >= 0
      <4>1. c * percent <= c * 125 /\ c * 125 <= p.max * 125
        BY <1>1, <1>2, <3>1
      <4> QED
        BY <1>1, <1>2, <4>1
    <3>2. CASE c < 0
      BY <1>1, <1>2, <3>2
    <3> QED
      BY <1>2, <3>1, <3>2
  <2>2. PICK x \in Int : x = c * percent
    BY <1>2
  <2>3. 2 * c * percent = 2 * x
    BY <1>2, <2>2
  <2>4. Jittered(c, percent) = (2 * x + 100) \div 200
    BY <2>3 DEF Jittered
  <2> QED
    BY <1>1, <2>1, <2>2, <2>4
<1> QED
  BY <1>1, <1>2, <1>3 DEF Delay, c

\* The same without a policy.
LEMMA DefaultDelayBound ==
    ASSUME NEW n \in Nat \ {0}
    PROVE  DefaultDelay(n) \in Int /\ DefaultDelay(n) <= 60000
<1>1. 2 ^ (n - 1) \in Int
  OBVIOUS
<1> QED
  BY <1>1 DEF DefaultDelay, Lesser

\* The inductive invariant, for the jobs of deleted queues as well.
DelayInv ==
    \A i \in DOMAIN jobs :
        /\ jobs[i].attempts \in Nat
        /\ 4 * jobs[i].delay <= FourTimesLongest(jobs[i].policy)

\* A row that has not failed yet.
Unfailed(row) == row.attempts = 0 /\ row.delay = 0

LEMMA NewJobUnfailed ==
    ASSUME NEW q, NEW k, NEW kind, NEW n, NEW m
    PROVE  Unfailed(NewJob(q, k, kind, n, m))
BY DEF Unfailed, NewJob

\* Policies are not changed, and FailJob alone changes attempts and delays.
LEMMA DelaysKept ==
    ASSUME IngestionInv, NEW c \in Clients, Call(c) \/ Serve(c)
    PROVE  /\ \A n \in Names : policies[n] # NULL => policies'[n] = policies[n]
           /\ \A i \in DOMAIN jobs' :
                 \/ Unfailed(jobs'[i])
                 \/ /\ i \in DOMAIN jobs /\ jobs'[i].policy = jobs[i].policy
                    /\ jobs'[i].attempts = jobs[i].attempts /\ jobs'[i].delay = jobs[i].delay
<1>1. \A n \in Names : policies[n] # NULL => policies'[n] = policies[n]
  <2>1. policies \in [Names -> PolicyRows]
    BY DEF IngestionInv, TypeOK, PolicyRows
  <2> QED
    BY <2>1 DEF Call, Serve, CountPolicies, Provision, CreatePolicy, CreateQueueCheck,
       CreateQueue, UpdateQueue, DeleteQueue, ReadQueue, FindByKey, ReadPolicy, InsertJob,
       ReadQueueForBatch, InsertBatch
<1>2. PICK T : jobs \in Seq(T)
  BY DEF IngestionInv, TypeOK
<1>3. CASE UNCHANGED jobs
  BY <1>1, <1>3
<1>4. ASSUME NEW q \in Queues, DeleteQueue(c, q)
      PROVE  \A i \in DOMAIN jobs' :
                /\ i \in DOMAIN jobs /\ jobs'[i].policy = jobs[i].policy
                /\ jobs'[i].attempts = jobs[i].attempts /\ jobs'[i].delay = jobs[i].delay
  <2>1. jobs' = [i \in DOMAIN jobs |-> IF jobs[i].queue = q THEN [jobs[i] EXCEPT !.live = FALSE]
                                       ELSE jobs[i]]
    BY <1>4 DEF DeleteQueue
  <2>2. \A i \in DOMAIN jobs : DOMAIN jobs[i] = Columns
    BY DEF IngestionInv, TypeOK
  <2> QED
    BY <2>1, <2>2 DEF Columns
<1>5. ASSUME InsertJob(c), jobs' # jobs
      PROVE  \A i \in DOMAIN jobs' :
                Unfailed(jobs'[i]) \/ (i \in DOMAIN jobs /\ jobs'[i] = jobs[i])
  <2>1. PICK row : jobs' = Append(jobs, row) /\ Unfailed(row)
    BY <1>5, NewJobUnfailed DEF InsertJob
  <2>2. jobs \in Seq(T \cup {row})
    BY <1>2, SeqMonotonic
  <2> QED
    BY <2>1, <2>2, AppendProperties, LenProperties
<1>6. ASSUME NEW ks \in Batches, InsertBatch(c, ks), jobs' # jobs
      PROVE  \A i \in DOMAIN jobs' :
                Unfailed(jobs'[i]) \/ (i \in DOMAIN jobs /\ jobs'[i] = jobs[i])
  <2> DEFINE r == request[c]
             parent == NewJob(r.queue, NULL, "parent", NULL, DefaultMaxRetries)
             items == [i \in DOMAIN ks |-> NewJob(r.queue, ks[i], "item", r.policy, DefaultMaxRetries)]
             S == {parent} \cup {NewJob(r.queue, k, "item", r.policy, DefaultMaxRetries) :
                                    k \in Keys \cup {NULL}}
  <2>1. jobs' = jobs \o BatchRows(r, ks)
    BY <1>6 DEF InsertBatch
  <2>2. BatchRows(r, ks) = <<parent>> \o items
    <3>1. BatchRows(r, ks) # << >>
      BY <1>2, <1>6, <2>1, ConcatEmptySeq
    <3> QED
      BY <3>1 DEF BatchRows
  <2>3. <<parent>> \in Seq(S) /\ items \in Seq(S)
    <3>1. Len(ks) \in Nat /\ DOMAIN ks = 1..Len(ks) /\ ks \in [1..Len(ks) -> Keys \cup {NULL}]
      BY KeysOfBatches, LenProperties
    <3>2. items \in [1..Len(ks) -> S]
      BY <3>1
    <3> QED
      BY <3>1, <3>2, SeqDef
  <2>4. \A row \in S : Unfailed(row)
    BY NewJobUnfailed
  <2> HIDE DEF S, parent, items
  <2>5. PICK rows \in Seq(S) : jobs' = jobs \o rows
    BY <2>1, <2>2, <2>3, ConcatProperties
  <2>6. jobs \in Seq(T \cup S) /\ rows \in Seq(T \cup S)
    BY <1>2, SeqMonotonic
  <2>7. /\ jobs' \in Seq(T \cup S) /\ Len(jobs') = Len(jobs) + Len(rows)
        /\ \A i \in 1..(Len(jobs) + Len(rows)) :
              jobs'[i] = IF i <= Len(jobs) THEN jobs[i] ELSE rows[i - Len(jobs)]
    BY <2>5, <2>6, ConcatProperties
  <2>8. /\ Len(jobs) \in Nat /\ DOMAIN jobs = 1..Len(jobs)
        /\ Len(rows) \in Nat /\ \A i \in 1..Len(rows) : rows[i] \in S
        /\ DOMAIN jobs' = 1..(Len(jobs) + Len(rows))
    BY <1>2, <2>7, LenProperties, ElementOfSeq
  <2>9. ASSUME NEW i \in 1..(Len(jobs) + Len(rows))
        PROVE  Unfailed(jobs'[i]) \/ (i \in DOMAIN jobs /\ jobs'[i] = jobs[i])
    <3>1. CASE i <= Len(jobs)
      BY <2>7, <2>8, <3>1
    <3>2. CASE ~(i <= Len(jobs))
      <4>1. i - Len(jobs) \in 1..Len(rows)
        BY <2>8, <3>2
      <4>2. jobs'[i] = rows[i - Len(jobs)]
        BY <2>7, <3>2
      <4> QED
        BY <2>4, <2>8, <4>1, <4>2
    <3> QED
      BY <3>1, <3>2
  <2> QED
    BY <2>8, <2>9
<1>7. \/ UNCHANGED jobs
      \/ \E q \in Queues : DeleteQueue(c, q)
      \/ InsertJob(c)
      \/ \E ks \in Batches : InsertBatch(c, ks)
  BY DEF Call, Serve, CountPolicies, Provision, CreatePolicy, CreateQueueCheck, CreateQueue,
     UpdateQueue, ReadQueue, FindByKey, ReadPolicy, ReadQueueForBatch
<1> QED
  BY <1>1, <1>3, <1>4, <1>5, <1>6, <1>7

\* A failure gives the job the next delay of its policy.
LEMMA FailJobDelays ==
    ASSUME IngestionInv, DelayInv, NEW i \in DOMAIN jobs, NEW percent \in JitterPercents,
           FailJob(i, percent)
    PROVE  DelayInv'
<1> DEFINE n == jobs[i].policy
           attempt == jobs[i].attempts + 1
           delay == IF n = NULL THEN DefaultDelay(attempt)
                    ELSE Delay(policies[n], attempt, percent)
<1>1. jobs' = [jobs EXCEPT ![i].attempts = attempt, ![i].delay = delay] /\ policies' = policies
  BY DEF FailJob
<1>2. attempt \in Nat \ {0} /\ percent \in 75..125
  BY IngestionBounds DEF DelayInv
<1>3. 4 * delay <= FourTimesLongest(n)
  <2>1. CASE n = NULL
    BY <1>2, <2>1, DefaultDelayBound DEF FourTimesLongest
  <2>2. CASE n # NULL
    <3>1. n \in Names /\ policies \in [Names -> PolicyRows]
      BY <2>2 DEF IngestionInv, TypeOK, PolicyRows
    <3>2. policies[n] \in PolicyRows /\ policies[n] # NULL
      BY <2>2, <3>1 DEF IngestionInv, PoliciesExist, PolicyExists
    <3>3. policies[n] \in Policies
      BY <3>2, PoliciesTyped
    <3>4. 4 * Delay(policies[n], attempt, percent)
            <= IF policies[n].jitter THEN 5 * policies[n].max + 2 ELSE 4 * policies[n].max
      <4> HIDE DEF attempt, n
      <4> QED
        BY <1>2, <3>3, DelayBound
    <3> QED
      BY <2>2, <3>4 DEF FourTimesLongest
  <2> QED
    BY <2>1, <2>2
<1> HIDE DEF attempt, delay
<1>4. DOMAIN jobs[i] = Columns
  BY DEF IngestionInv, TypeOK
<1> DEFINE r == [[jobs[i] EXCEPT !.attempts = attempt] EXCEPT !.delay = delay]
<1>5. jobs' = [jobs EXCEPT ![i] = r]
  BY <1>1, Zenon
<1>6. r.attempts = attempt /\ r.delay = delay /\ r.policy = n
  BY <1>4 DEF Columns
<1> HIDE DEF r, n
<1>7. /\ DOMAIN jobs' = DOMAIN jobs /\ jobs'[i] = r
      /\ \A j \in DOMAIN jobs : j # i => jobs'[j] = jobs[j]
  BY <1>5
<1>8. \A m : FourTimesLongest(m)' = FourTimesLongest(m)
  BY <1>1 DEF FourTimesLongest
<1> QED
  BY <1>2, <1>3, <1>6, <1>7, <1>8 DEF DelayInv

\* Every delay stays within the policy of its job.
LEMMA NextDelayInv == IngestionInv /\ IngestionInv' /\ DelayInv /\ [Next]_vars => DelayInv'
<1> SUFFICES ASSUME IngestionInv, IngestionInv', DelayInv, [Next]_vars PROVE DelayInv'
  OBVIOUS
<1>1. CASE UNCHANGED vars
  BY <1>1 DEF DelayInv, FourTimesLongest, vars
<1>2. ASSUME NEW c \in Clients, Call(c) \/ Serve(c) PROVE DelayInv'
  <2> SUFFICES ASSUME NEW i \in DOMAIN jobs'
               PROVE  /\ jobs'[i].attempts \in Nat
                      /\ 4 * jobs'[i].delay <= FourTimesLongest(jobs[i].policy)'
    BY DEF DelayInv
  <2>1. CASE Unfailed(jobs'[i])
    <3> DEFINE n == jobs'[i].policy
    <3>1. n \in Names \cup {NULL} /\ policies' \in [Names -> PolicyRows]
      BY DEF IngestionInv, TypeOK, PolicyRows
    <3>2. n # NULL => policies'[n] \in PolicyRows /\ policies'[n] # NULL
      BY <3>1 DEF IngestionInv, PoliciesExist, PolicyExists
    <3>3. n # NULL => policies'[n] \in Policies
      BY <3>2, PoliciesTyped
    <3> QED
      BY <2>1, <3>3 DEF Unfailed, FourTimesLongest, Policies
  <2>2. CASE /\ i \in DOMAIN jobs /\ jobs'[i].policy = jobs[i].policy
             /\ jobs'[i].attempts = jobs[i].attempts /\ jobs'[i].delay = jobs[i].delay
    <3>1. jobs[i].policy \in Names \cup {NULL}
      BY <2>2 DEF IngestionInv, TypeOK
    <3>2. jobs[i].policy # NULL => policies[jobs[i].policy] # NULL
      BY <2>2 DEF IngestionInv, PoliciesExist, PolicyExists
    <3>3. jobs[i].policy # NULL => policies'[jobs[i].policy] = policies[jobs[i].policy]
      BY <1>2, <3>1, <3>2, DelaysKept
    <3> QED
      BY <2>2, <3>3 DEF DelayInv, FourTimesLongest
  <2> QED
    BY <1>2, <2>1, <2>2, DelaysKept
<1>3. ASSUME NEW i \in DOMAIN jobs, NEW p \in JitterPercents, FailJob(i, p) PROVE DelayInv'
  BY <1>3, FailJobDelays
<1> QED
  BY <1>1, <1>2, <1>3 DEF Next

\* No retry waits longer than its policy allows, but for the jitter, for every
\* policy that the API admits and any number of attempts.
THEOREM DelaysBounded == Spec => []DelayWithinPolicy
<1>1. Init => DelayInv
  BY DEF Init, DelayInv
<1>2. DelayInv => DelayWithinPolicy
  BY DEF DelayInv, DelayWithinPolicy, Live
<1> QED
  BY <1>1, <1>2, NextDelayInv, IngestionInvariance, PTL DEF Spec

=============================================================================
