-------------------------- MODULE DatasetAdmission --------------------------
(***************************************************************************)
(* ManagementRPCService (internal/api/grpc/management_service.go): how     *)
(* AdmitDataset requests for one dataset, handled concurrently, read and   *)
(* write the dataset's epoch list in etcd, and UpsertTenantQuota the quota *)
(* of its tenant.                                                          *)
(*                                                                         *)
(* Each access to etcd is a step.  The epoch list is the set of its        *)
(* epochs, as equality of lists and membership are decided in the code by  *)
(* proto.Equal, whatever the order.                                        *)
(***************************************************************************)
EXTENDS Integers, FiniteSets

CONSTANTS
    Epoch,       \* the epochs: records with a field id and what tells apart
                 \* the epochs with the same id
    Request,     \* the AdmitDataset requests
    epochsOf,    \* what GenerateEpochs makes of each request; {}: an error
    Malformed,   \* the requests that validateAdmitRequest refuses
    Existing,    \* the epoch lists it may begin with; {}: the key does not exist
    Quota,       \* the values of max_epochs that UpsertTenantQuota is called with
    NoQuota,     \* the quota key does not exist
    Lossy        \* etcd requests may fail

ASSUME AdmissionAssumption ==
    /\ epochsOf \in [Request -> SUBSET Epoch]
    /\ Malformed \subseteq Request
    /\ Existing \subseteq SUBSET Epoch
    /\ Quota \subseteq Int
    /\ NoQuota \notin Int
    /\ Lossy \in BOOLEAN

VARIABLES
    isLeader,    \* IsLeader() of the node a request reaches
    quota,       \* etcd: max_epochs of the tenant; 0 is no limit
    epochList,   \* etcd: the epochs of the dataset
    modRevision, \* etcd: the ModRevision of their key, 0 if there is none
    upserting,   \* the quota an UpsertTenantQuota is about to put
    pc,          \* where each AdmitDataset is
    seenList,    \* the list it has read
    seenRev,     \* ... and its ModRevision, Unread before it has
    reply        \* its answer

etcdVars == <<quota, epochList, modRevision>>
requestVars == <<pc, seenList, seenRev, reply>>

admissionVars == <<isLeader, etcdVars, upserting, requestVars>>

Unread == -1

Reply == {"none", "NOT_LEADER", "REJECTED", "ACCEPTED", "ERROR"}

AdmissionTypeOK ==
    /\ isLeader \in BOOLEAN
    /\ quota \in Nat \cup {NoQuota}
    /\ epochList \subseteq Epoch
    /\ modRevision \in Nat
    /\ upserting \in Nat \cup {NoQuota}
    /\ pc \in [Request -> {"idle", "quota", "list", "put", "txn", "done"}]
    /\ seenList \in [Request -> SUBSET Epoch]
    /\ seenRev \in [Request -> Nat \cup {Unread}]
    /\ reply \in [Request -> Reply]

AdmissionInit ==
    /\ isLeader \in BOOLEAN
    /\ quota \in {q \in Quota : q >= 0} \cup {NoQuota}
    /\ epochList \in Existing
    /\ modRevision = IF epochList = {} THEN 0 ELSE 1
    /\ upserting = NoQuota
    /\ pc = [r \in Request |-> "idle"]
    /\ seenList = [r \in Request |-> {}]
    /\ seenRev = [r \in Request |-> Unread]
    /\ reply = [r \in Request |-> "none"]

Goto(r, label) == pc' = [pc EXCEPT ![r] = label] /\ UNCHANGED reply

Return(r, answer) ==
    /\ pc' = [pc EXCEPT ![r] = "done"]
    /\ reply' = [reply EXCEPT ![r] = answer]

-----------------------------------------------------------------------------
(* UpsertTenantQuota *)

\* Mutant: negative values are not refused.
UpsertTenantQuotaUnchecked(q) ==
    /\ upserting = NoQuota /\ isLeader
    /\ upserting' = q
    /\ UNCHANGED <<isLeader, etcdVars, requestVars>>

\* requireLeader and the check of the values.
UpsertTenantQuota(q) ==
    /\ upserting = NoQuota /\ isLeader
    /\ q >= 0
    /\ upserting' = q
    /\ UNCHANGED <<isLeader, etcdVars, requestVars>>

PutQuota ==
    /\ upserting # NoQuota
    /\ quota' = upserting \/ (Lossy /\ UNCHANGED quota)
    /\ upserting' = NoQuota
    /\ UNCHANGED <<isLeader, epochList, modRevision, requestVars>>

-----------------------------------------------------------------------------
(* AdmitDataset *)

\* requireLeader and validateAdmitRequest.
AdmitDataset(r) ==
    /\ pc[r] = "idle"
    /\ \/ ~isLeader /\ Return(r, "NOT_LEADER")
       \/ isLeader /\ r \in Malformed /\ Return(r, "REJECTED")
       \/ isLeader /\ r \notin Malformed /\ Goto(r, "quota")
    /\ UNCHANGED <<isLeader, etcdVars, upserting, seenList, seenRev>>

\* A tenant without a quota is refused, then a request GenerateEpochs makes no
\* epochs of; one with a quota may ask for so many epochs in one request.
GetQuota(r) ==
    /\ pc[r] = "quota"
    /\ \/ (Lossy \/ quota = NoQuota) /\ Return(r, "REJECTED")
       \/ /\ quota # NoQuota
          /\ IF epochsOf[r] = {} \/ (quota > 0 /\ Cardinality(epochsOf[r]) > quota)
             THEN Return(r, "REJECTED")
             ELSE Goto(r, "list")
    /\ UNCHANGED <<isLeader, etcdVars, upserting, seenList, seenRev>>

\* saveEpochs: the list that exists, if any.
GetEpochList(r) ==
    /\ pc[r] = "list"
    /\ \/ Lossy /\ Return(r, "ERROR") /\ UNCHANGED <<seenList, seenRev>>
       \/ /\ seenList' = [seenList EXCEPT ![r] = epochList]
          /\ seenRev' = [seenRev EXCEPT ![r] = modRevision]
          /\ \/ modRevision = 0 /\ Goto(r, "put")
             \/ modRevision # 0 /\ epochList = epochsOf[r] /\ Return(r, "ACCEPTED")
             \/ modRevision # 0 /\ epochList # epochsOf[r] /\ Goto(r, "txn")
    /\ UNCHANGED <<isLeader, etcdVars, upserting>>

\* A write of the list, whose answer may be lost.
WriteList(r, list) ==
    /\ epochList' = list
    /\ modRevision' = modRevision + 1
    /\ Return(r, "ACCEPTED") \/ (Lossy /\ Return(r, "ERROR"))

\* There was no list: Put, whatever is there by now.
PutEpochList(r) ==
    /\ pc[r] = "put"
    /\ \/ WriteList(r, epochsOf[r])
       \/ Lossy /\ Return(r, "ERROR") /\ UNCHANGED <<epochList, modRevision>>
    /\ UNCHANGED <<isLeader, quota, upserting, seenList, seenRev>>

\* Mutant: the new epochs replace the list.
CommitReplaces(r) ==
    /\ pc[r] = "txn"
    /\ \/ modRevision = seenRev[r] /\ WriteList(r, epochsOf[r])
       \/ /\ Lossy \/ modRevision # seenRev[r]
          /\ Return(r, "ERROR")
          /\ UNCHANGED <<epochList, modRevision>>
    /\ UNCHANGED <<isLeader, quota, upserting, seenList, seenRev>>

\* Mutant: a Put as for a new list.
CommitUnconditionally(r) ==
    /\ pc[r] = "txn"
    /\ WriteList(r, epochsOf[r] \cup seenList[r])
    /\ UNCHANGED <<isLeader, quota, upserting, seenList, seenRev>>

\* There was one: the merged list, if the key has not been modified since.
CommitEpochList(r) ==
    /\ pc[r] = "txn"
    /\ \/ /\ modRevision = seenRev[r]
          /\ WriteList(r, epochsOf[r] \cup seenList[r])
       \/ /\ Lossy \/ modRevision # seenRev[r]
          /\ Return(r, "ERROR")
          /\ UNCHANGED <<epochList, modRevision>>
    /\ UNCHANGED <<isLeader, quota, upserting, seenList, seenRev>>

-----------------------------------------------------------------------------
RoleChanges ==
    /\ isLeader' = ~isLeader
    /\ UNCHANGED <<etcdVars, upserting, requestVars>>

AdmissionNext ==
    \/ RoleChanges \/ PutQuota
    \/ \E q \in Quota : UpsertTenantQuota(q)
    \/ \E r \in Request :
         \/ AdmitDataset(r) \/ GetQuota(r) \/ GetEpochList(r)
         \/ PutEpochList(r) \/ CommitEpochList(r)

AdmissionSpec == AdmissionInit /\ [][AdmissionNext]_admissionVars

-----------------------------------------------------------------------------
(* Properties *)

Accepted == {r \in Request : reply[r] = "ACCEPTED"}

\* The request has read that there is no list, and has put its own or is about to.
FoundNoList(r) == seenRev[r] = 0

\* What AdmitDataset accepted stays, whatever concurrent admissions, failures, lost
\* answers and second attempts follow, as long as no two requests of saveEpochs
\* found the dataset without a list: the ModRevision protects all writes but the
\* first.
AcceptedStored ==
    (\A p, q \in Request : FoundNoList(p) /\ FoundNoList(q) => p = q)
      => \A r \in Accepted : epochsOf[r] \subseteq epochList

\* Only the Put of a request that found no list drops epochs: the transactions of
\* saveEpochs keep every epoch, whatever has been written since they read the list.
EpochsKept ==
    [][(\A r \in Request : pc[r] # "put") => epochList \subseteq epochList']_admissionVars

\* "All epochs accepted": the same without the condition.
FirstAcceptedStored == \A r \in Accepted : epochsOf[r] \subseteq epochList

\* "one epoch_id = one DuckDB table": no two epochs of a dataset share an id.
\* The code does not keep this.
OneEpochPerId == \A d, e \in epochList : d.id = e.id => d = e

\* "TenantQuota defines resource limits for a specific tenant": the tenant never
\* has more epochs than its quota allows.  The code does not keep this.
TenantWithinQuota ==
    quota # NoQuota /\ quota > 0 => Cardinality(epochList) <= quota

\* "Leadership loss must immediately stop leader-only RPC behavior": what is
\* written to etcd is written by a leader.  The code does not keep this.
LeaderWrites == [][etcdVars' # etcdVars => isLeader]_admissionVars

\* What makes AcceptedStored inductive: a list read at the current revision is the
\* current list, and a request about to put the first list is either the first to
\* write or one of two that found none.
AdmissionInv ==
    /\ AdmissionTypeOK
    /\ \A r \in Request :
         /\ pc[r] \in {"idle", "quota", "list"} => seenRev[r] = Unread
         /\ seenRev[r] <= modRevision
         /\ seenRev[r] = modRevision => seenList[r] = epochList
         /\ pc[r] = "put" => seenRev[r] = 0
         /\ pc[r] = "txn" => seenRev[r] > 0
         /\ reply[r] = "ACCEPTED" => modRevision > 0
         /\ pc[r] = "put" /\ modRevision > 0
              => \E q \in Request : q # r /\ FoundNoList(q)
    /\ AcceptedStored
=============================================================================
