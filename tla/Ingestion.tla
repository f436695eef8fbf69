----------------------------- MODULE Ingestion -----------------------------
(***************************************************************************)
(* The rows that requests create in a project: retry policies, queues and  *)
(* jobs, one by one or in batches, with idempotency keys; and the budget   *)
(* and the delays of a job's retries, which come from a policy that is     *)
(* read when the job is created and again when it fails.                   *)
(*                                                                         *)
(* A request is a sequence of queries with other requests in between, and  *)
(* a client may repeat a request of which it never saw the answer. When    *)
(* and how jobs are executed is JobEngine's subject.                       *)
(***************************************************************************)
EXTENDS RetryDelay, FiniteSets, Sequences

CONSTANTS
    Clients,      \* each has one request under way at most
    Queues,       \* rows that may appear in queues, one for each name
    Initially,    \* those that exist from the beginning
    Keys,         \* idempotency keys
    Batches,      \* the items of a batch: sequences of keys, NULL for none
    JitterPercents,
    CustomPolicy, \* what a user asks for in a policy of his own
    MaxJobs,      \* bound: rows of jobs
    MaxCalls,     \* bound: requests of a client
    MaxFailures,  \* bound: failures of jobs
    NULL

ASSUME IngestionBounds ==
    /\ MaxJobs \in Nat /\ MaxCalls \in Nat /\ MaxFailures \in Nat
    /\ JitterPercents \subseteq 75 .. 125
    /\ Initially \subseteq Queues
ASSUME KeysOfBatches == NULL \notin Keys /\ Batches \subseteq Seq(Keys \cup {NULL})
ASSUME PolicyIsValid == CustomPolicy \in Policies

JobIds == 1 .. MaxJobs
Standard == DOMAIN StandardPolicies
Names == Standard \cup {"mine"}

VARIABLES
    policies,  \* retry_policies by name
    queue,     \* the queues: whether they exist, and their policy
    jobs,      \* rows of jobs in the order of their creation
    request,   \* the requests under way
    calls,     \* requests made by a client so far
    answered   \* history: the jobs answered to a request with a key

vars == <<policies, queue, jobs, request, calls, answered>>

NoRequest == [pc |-> "none", queue |-> NULL, key |-> NULL, policy |-> NULL, maxRetries |-> 0]
NoQueue == [state |-> "none", policy |-> NULL]

Init ==
    /\ policies = [n \in Names |-> NULL]
    /\ queue = [q \in Queues |-> IF q \in Initially THEN [NoQueue EXCEPT !.state = "open"]
                                 ELSE NoQueue]
    /\ jobs = <<>>
    /\ request = [c \in Clients |-> NoRequest]
    /\ calls = [c \in Clients |-> 0]
    /\ answered = [k \in Keys |-> {}]

Open(q) == queue[q].state = "open"
PolicyExists(n) == n # NULL => policies[n] # NULL

\* A request begins; its client may have given up on the one before.
Begin(c, r) ==
    /\ request[c].pc = "none"
    /\ calls[c] < MaxCalls
    /\ calls' = [calls EXCEPT ![c] = @ + 1]
    /\ request' = [request EXCEPT ![c] = r]

At(c, pc) == request[c].pc = pc
Goto(c, pc) == request' = [request EXCEPT ![c].pc = pc]
Answer(c) == request' = [request EXCEPT ![c] = NoRequest]

(***************************************************************************)
(* RetryPolicyService: a list request provisions a project without         *)
(* policies. The count and the insertion are two statements.               *)
(***************************************************************************)
CountPolicies(c) ==
    /\ \A n \in Names : policies[n] = NULL
    /\ Begin(c, [NoRequest EXCEPT !.pc = "provision"])
    /\ UNCHANGED <<policies, queue, jobs, answered>>

\* skipDuplicates
Provision(c) ==
    /\ At(c, "provision")
    /\ policies' = [n \in Names |-> IF n \in Standard /\ policies[n] = NULL
                                    THEN StandardPolicies[n] ELSE policies[n]]
    /\ Answer(c)
    /\ UNCHANGED <<queue, jobs, calls, answered>>

\* A name that is taken violates the unique index.
CreatePolicy(c, n) ==
    /\ policies[n] = NULL
    /\ policies' = [policies EXCEPT ![n] = CustomPolicy]
    /\ Begin(c, NoRequest)
    /\ UNCHANGED <<queue, jobs, answered>>

(***************************************************************************)
(* QueueService.                                                           *)
(***************************************************************************)
CreateQueueCheck(c, q, n) ==
    /\ ~Open(q)
    /\ PolicyExists(n)
    /\ Begin(c, [NoRequest EXCEPT !.pc = "queue", !.queue = q, !.policy = n])
    /\ UNCHANGED <<policies, queue, jobs, answered>>

\* The unique index decides between two requests that found the name free.
\* The name of a deleted queue is not used again here.
CreateQueue(c) ==
    LET r == request[c]
    IN  /\ At(c, "queue")
        /\ IF queue[r.queue].state = "none"
           THEN queue' = [queue EXCEPT ![r.queue] = [state |-> "open", policy |-> r.policy]]
           ELSE UNCHANGED queue
        /\ Answer(c)
        /\ UNCHANGED <<policies, jobs, calls, answered>>

UpdateQueue(c, q, n) ==
    /\ Open(q)
    /\ PolicyExists(n)
    /\ queue' = [queue EXCEPT ![q].policy = n]
    /\ Begin(c, NoRequest)
    /\ UNCHANGED <<policies, jobs, answered>>

\* The jobs of the queue go with it.
DeleteQueue(c, q) ==
    /\ Open(q)
    /\ queue' = [queue EXCEPT ![q].state = "deleted"]
    /\ jobs' = [i \in DOMAIN jobs |-> IF jobs[i].queue = q THEN [jobs[i] EXCEPT !.live = FALSE]
                                      ELSE jobs[i]]
    /\ answered' = [k \in Keys |-> {i \in answered[k] : jobs[i].queue # q}]
    /\ Begin(c, NoRequest)
    /\ UNCHANGED policies

(***************************************************************************)
(* JobService.createJob: the queue, the job with the key, the policy, and  *)
(* the insertion.                                                          *)
(***************************************************************************)
Live == {i \in DOMAIN jobs : jobs[i].live}
WithKey(k) == {i \in Live : jobs[i].key = k}

NewJob(q, k, kind, n, retries) ==
    [queue |-> q, key |-> k, kind |-> kind, policy |-> n, maxRetries |-> retries,
     attempts |-> 0, delay |-> 0, live |-> TRUE]

\* What two statements of one request have in common: a queue that exists.
ReadQueue(c, q, k) ==
    /\ Open(q)
    /\ Begin(c, [NoRequest EXCEPT !.pc = "find", !.queue = q, !.key = k, !.policy = queue[q].policy,
                                  !.maxRetries = DefaultMaxRetries])
    /\ UNCHANGED <<policies, queue, jobs, answered>>

\* A request with a key answers the job it finds, of whichever queue.
FindByKey(c) ==
    LET k == request[c].key
    IN  /\ At(c, "find")
        /\ IF k = NULL \/ WithKey(k) = {}
           THEN Goto(c, "policy") /\ UNCHANGED answered
           ELSE Answer(c) /\ answered' = [answered EXCEPT ![k] = @ \cup WithKey(k)]
        /\ UNCHANGED <<policies, queue, jobs, calls>>

\* The policy, of the request or of the queue, overrides the retries asked for.
BudgetBug(r, n) == r.maxRetries
Budget(r, n) == IF n = NULL \/ policies[n] = NULL THEN r.maxRetries ELSE policies[n].maxRetries

ReadPolicy(c, n) ==
    LET r == request[c]
    IN  /\ At(c, "policy")
        /\ n # r.policy => n # NULL /\ PolicyExists(n)
        /\ request' = [request EXCEPT ![c].pc = "insert", ![c].policy = n,
                                      ![c].maxRetries = Budget(r, n)]
        /\ UNCHANGED <<policies, queue, jobs, calls, answered>>

\* The unique index and the foreign key, at the time of the insertion.
FreshBug(k) == TRUE
Fresh(k) == k = NULL \/ WithKey(k) = {}
MayInsert(q, ks) ==
    /\ Open(q)
    /\ \A i \in DOMAIN ks : Fresh(ks[i]) /\ \A j \in DOMAIN ks : ks[i] = ks[j] => i = j \/ ks[i] = NULL

InsertJob(c) ==
    LET r == request[c]
    IN  /\ At(c, "insert")
        /\ Len(jobs) < MaxJobs
        /\ IF MayInsert(r.queue, <<r.key>>)
           THEN /\ jobs' = Append(jobs, NewJob(r.queue, r.key, "single", r.policy, r.maxRetries))
                /\ answered' = IF r.key = NULL THEN answered
                               ELSE [answered EXCEPT ![r.key] = @ \cup {Len(jobs) + 1}]
           ELSE UNCHANGED <<jobs, answered>>
        /\ Answer(c)
        /\ UNCHANGED <<policies, queue, calls>>

(***************************************************************************)
(* JobService.createBatchJobs: the parent and its items in a transaction.  *)
(* The items have the policy of the queue and the default budget.          *)
(***************************************************************************)
ReadQueueForBatch(c, q) ==
    /\ Open(q)
    /\ Begin(c, [NoRequest EXCEPT !.pc = "batch", !.queue = q, !.policy = queue[q].policy])
    /\ UNCHANGED <<policies, queue, jobs, answered>>

\* The parent and the items that the transaction leaves behind.
BatchRowsBug(r, ks) ==
    <<NewJob(r.queue, NULL, "parent", NULL, DefaultMaxRetries)>>
        \o IF MayInsert(r.queue, ks)
           THEN [i \in DOMAIN ks |-> NewJob(r.queue, ks[i], "item", r.policy, DefaultMaxRetries)]
           ELSE <<>>
BatchRows(r, ks) ==
    IF ~MayInsert(r.queue, ks) THEN <<>>
    ELSE <<NewJob(r.queue, NULL, "parent", NULL, DefaultMaxRetries)>>
             \o [i \in DOMAIN ks |-> NewJob(r.queue, ks[i], "item", r.policy, DefaultMaxRetries)]

InsertBatch(c, ks) ==
    /\ At(c, "batch")
    /\ Len(jobs) + Len(ks) < MaxJobs
    /\ jobs' = jobs \o BatchRows(request[c], ks)
    /\ Answer(c)
    /\ UNCHANGED <<policies, queue, calls, answered>>

(***************************************************************************)
(* Executor.handleFailure. A job out of retries is dead-lettered, which    *)
(* JobEngine follows further.                                              *)
(***************************************************************************)
FailJob(i, percent) ==
    LET j == jobs[i]
        attempt == j.attempts + 1
    IN  /\ j.live
        /\ attempt <= j.maxRetries
        /\ jobs' = [jobs EXCEPT ![i].attempts = attempt,
                        ![i].delay = IF j.policy = NULL THEN DefaultDelay(attempt)
                                     ELSE Delay(policies[j.policy], attempt, percent)]
        /\ UNCHANGED <<policies, queue, request, calls, answered>>

Failures == LET Sum[i \in 0 .. Len(jobs)] == IF i = 0 THEN 0 ELSE jobs[i].attempts + Sum[i - 1]
            IN  Sum[Len(jobs)]

-----------------------------------------------------------------------------
Serve(c) ==
    \/ Provision(c) \/ CreateQueue(c) \/ FindByKey(c) \/ InsertJob(c)
    \/ \E n \in Names \cup {NULL} : ReadPolicy(c, n)
    \/ \E ks \in Batches : InsertBatch(c, ks)

Call(c) ==
    \/ CountPolicies(c)
    \/ \E n \in Names : CreatePolicy(c, n)
    \/ \E q \in Queues :
          \/ \E n \in Names \cup {NULL} : CreateQueueCheck(c, q, n) \/ UpdateQueue(c, q, n)
          \/ DeleteQueue(c, q)
          \/ \E k \in Keys \cup {NULL} : ReadQueue(c, q, k)
          \/ ReadQueueForBatch(c, q)

Next ==
    \/ \E c \in Clients : Call(c) \/ Serve(c)
    \/ Failures < MaxFailures /\ \E i \in DOMAIN jobs, p \in JitterPercents : FailJob(i, p)

Spec == Init /\ [][Next]_vars

-----------------------------------------------------------------------------
Columns == {"queue", "key", "kind", "policy", "maxRetries", "attempts", "delay", "live"}

\* The type invariant, but for the delays, which DelayWithinPolicy bounds.
TypeOK ==
    /\ policies \in [Names -> {NULL, CustomPolicy} \cup {StandardPolicies[n] : n \in Standard}]
    /\ queue \in [Queues -> [state : {"none", "open", "deleted"}, policy : Names \cup {NULL}]]
    /\ jobs \in Seq({jobs[i] : i \in DOMAIN jobs})
    /\ \A i \in DOMAIN jobs : /\ DOMAIN jobs[i] = Columns
                              /\ jobs[i].queue \in Queues
                              /\ jobs[i].key \in Keys \cup {NULL}
                              /\ jobs[i].policy \in Names \cup {NULL}
                              /\ jobs[i].live \in BOOLEAN
    /\ request \in [Clients -> [pc : {"none", "provision", "queue", "find", "policy", "insert", "batch"},
                                queue : Queues \cup {NULL}, key : Keys \cup {NULL},
                                policy : Names \cup {NULL}, maxRetries : Nat]]
    /\ answered \in [Keys -> SUBSET DOMAIN jobs]

\* All requests with one key are answered with one job, although the search
\* for the key and the insertion are two statements, whether the key came
\* first in a request of its own or in a batch, and through whichever queue
\* the request is repeated, until the queue of the job is deleted. This is so
\* however old the job is: docs/database-schema.md:188 and the search in
\* tests/src/idempotency.test.ts:40-66 speak of the last 24 hours, but neither
\* the search of the code nor the unique index looks at the age.
OneJobPerKey ==
    \A k \in Keys : /\ Cardinality(answered[k]) <= 1
                    /\ answered[k] \subseteq WithKey(k)

\* A batch exists with all its items or not at all, and its queue cannot take
\* some of them away.
BatchIsWhole ==
    \A i \in DOMAIN jobs :
        jobs[i].kind = "parent" =>
            \E ks \in Batches : \A n \in DOMAIN ks :
                /\ i + n \in DOMAIN jobs
                /\ jobs[i + n].kind = "item" /\ jobs[i + n].key = ks[n]
                /\ jobs[i + n].live = jobs[i].live

\* The policy that gives a job its budget is the one that gives it its delays,
\* although the first is read from the queue when the request begins and the
\* queue may have another by the time the job is inserted. (The items of a
\* batch take the delays of the policy and not its budget.)
BudgetOfPolicy ==
    \A i \in Live :
        jobs[i].kind = "single" /\ jobs[i].policy # NULL
            => jobs[i].maxRetries = policies[jobs[i].policy].maxRetries

\* The inductive invariant. Keys are unique among the rows, which is what the
\* index enforces; the items of a batch stay in the queue of their parent; and
\* whatever refers to a policy, a queue, a request or a job, refers to a row
\* that exists, and that never changes.
KeysAreUnique ==
    \A i, j \in Live : jobs[i].key = jobs[j].key /\ jobs[i].key # NULL => i = j

BatchesAreWhole ==
    \A i \in DOMAIN jobs :
        jobs[i].kind = "parent" =>
            \E ks \in Batches : \A n \in DOMAIN ks :
                /\ i + n \in DOMAIN jobs
                /\ jobs[i + n].kind = "item" /\ jobs[i + n].key = ks[n]
                /\ jobs[i + n].queue = jobs[i].queue
                /\ jobs[i + n].live = jobs[i].live

PoliciesExist ==
    /\ \A q \in Queues : PolicyExists(queue[q].policy)
    /\ \A c \in Clients :
          /\ PolicyExists(request[c].policy)
          /\ request[c].pc # "none" /\ request[c].pc # "provision" => request[c].queue \in Queues
          /\ request[c].pc = "insert" /\ request[c].policy # NULL
                => request[c].maxRetries = policies[request[c].policy].maxRetries
    /\ \A i \in DOMAIN jobs :
          /\ PolicyExists(jobs[i].policy)
          /\ jobs[i].kind = "single" /\ jobs[i].policy # NULL
                => jobs[i].maxRetries = policies[jobs[i].policy].maxRetries

IngestionInv == TypeOK /\ OneJobPerKey /\ KeysAreUnique /\ BatchesAreWhole /\ PoliciesExist

\* No retry waits longer than its policy allows, but for the jitter, which is
\* applied after the cap and may exceed it by a quarter, rounded to the next
\* millisecond. Four times the longest delay of a policy is:
FourTimesLongest(n) ==
    IF n = NULL THEN 4 * 60000
    ELSE IF policies[n].jitter THEN 5 * policies[n].max + 2 ELSE 4 * policies[n].max

DelayWithinPolicy == \A i \in Live : 4 * jobs[i].delay <= FourTimesLongest(jobs[i].policy)

=============================================================================
