--------------------------- MODULE AdmissionProofs ---------------------------
(***************************************************************************)
(* For any number of concurrent requests, any epochs and any quota:        *)
(* saveEpochs' compare of the ModRevision protects what was accepted, with *)
(* the exception of two requests that both find no list.                   *)
(***************************************************************************)
EXTENDS DatasetAdmission, TLAPS

PC == {"idle", "quota", "list", "put", "txn", "done"}

\* Before a request has read the list.
Early == {"idle", "quota", "list"}

\* Return and Goto change one request's place and answer, and keep their types.
LEMMA AnswerTypes ==
    ASSUME AdmissionTypeOK, NEW r \in Request
    PROVE  /\ \A a \in Reply : Return(r, a) =>
                /\ pc' \in [Request -> PC] /\ reply' \in [Request -> Reply]
                /\ \A q \in Request : /\ pc'[q] = IF q = r THEN "done" ELSE pc[q]
                                      /\ reply'[q] = IF q = r THEN a ELSE reply[q]
           /\ \A l \in {"quota", "list", "put", "txn"} : Goto(r, l) =>
                /\ pc' \in [Request -> PC] /\ reply' = reply
                /\ \A q \in Request : pc'[q] = IF q = r THEN l ELSE pc[q]
  BY DEF AdmissionTypeOK, Return, Goto, PC

\* AdmissionInv holds of the list and the quota that AdmitDataset starts with.
LEMMA AdmissionInvInit == AdmissionInit => AdmissionInv
  <1> SUFFICES ASSUME AdmissionInit PROVE AdmissionInv
    BY Zenon
  <1>1. AdmissionTypeOK
    BY AdmissionAssumption DEF AdmissionInit, AdmissionTypeOK, Reply
  <1>2. AcceptedStored
    BY Zenon DEF AdmissionInit, AcceptedStored, Accepted
  <1> QED
    BY <1>1, <1>2 DEF AdmissionInit, AdmissionInv, AdmissionTypeOK, Unread

\* A step that leaves the list alone, accepts no request and sends none to a write
\* preserves it.
LEMMA AnswerStep ==
    ASSUME AdmissionInv, UNCHANGED <<epochList, modRevision, seenList, seenRev>>,
           AdmissionTypeOK',
           \A q \in Request : /\ pc'[q] \in {"put", "txn"} => pc'[q] = pc[q]
                              /\ pc'[q] \in Early => pc[q] \in Early
                              /\ reply'[q] = "ACCEPTED" => reply[q] = "ACCEPTED"
    PROVE  AdmissionInv'
  <1>1. \A q \in Request : FoundNoList(q) => FoundNoList(q)'
    BY Zenon DEF FoundNoList
  <1>2. AcceptedStored'
    BY <1>1, Zenon DEF AdmissionInv, AcceptedStored, Accepted
  <1> QED
    BY <1>1, <1>2, Zenon DEF AdmissionInv, Early

\* The same for a step of one request that has not returned.
LEMMA RequestStep ==
    ASSUME AdmissionInv, NEW r \in Request, pc[r] # "done",
           UNCHANGED <<isLeader, quota, upserting, epochList, modRevision, seenList, seenRev>>,
           \/ \E l \in {"quota", "list"} : pc[r] \in Early /\ Goto(r, l)
           \/ \E a \in {"NOT_LEADER", "REJECTED", "ERROR"} : Return(r, a)
    PROVE  AdmissionInv'
  <1>0. AdmissionTypeOK
    BY Zenon DEF AdmissionInv
  <1>1. /\ pc' \in [Request -> PC] /\ reply' \in [Request -> Reply]
        /\ \A q \in Request :
             /\ pc'[q] \in {"put", "txn"} => pc'[q] = pc[q]
             /\ pc'[q] \in Early => pc[q] \in Early
             /\ reply'[q] = "ACCEPTED" => reply[q] = "ACCEPTED"
    BY <1>0, AnswerTypes DEF Reply, AdmissionTypeOK, Early
  <1>2. AdmissionTypeOK'
    BY <1>0, <1>1, Zenon DEF AdmissionTypeOK, PC
  <1> QED
    BY <1>1, <1>2, AnswerStep, Zenon

\* A write keeps it: by the request that finds no list and is the first to write
\* or one of two, or by one that keeps every epoch.
LEMMA WriteStep ==
    ASSUME AdmissionInv, NEW r \in Request, pc[r] \in {"put", "txn"},
           NEW list \in SUBSET Epoch, WriteList(r, list), epochsOf[r] \subseteq list,
           UNCHANGED <<isLeader, quota, upserting, seenList, seenRev>>,
           pc[r] = "txn" => epochList \subseteq list
    PROVE  AdmissionInv'
  <1>0. AdmissionTypeOK
    BY Zenon DEF AdmissionInv
  <1>1. /\ epochList' = list /\ modRevision' = modRevision + 1
        /\ pc' \in [Request -> PC] /\ reply' \in [Request -> Reply]
        /\ \A q \in Request : q # r => pc'[q] = pc[q] /\ reply'[q] = reply[q]
        /\ pc'[r] = "done" /\ reply'[r] \in {"ACCEPTED", "ERROR"}
    BY <1>0, AnswerTypes DEF WriteList, Reply
  <1>2. AdmissionTypeOK'
    BY <1>0, <1>1 DEF AdmissionTypeOK, PC
  <1>3. \A q \in Request : FoundNoList(q) => FoundNoList(q)'
    BY <1>1, Zenon DEF FoundNoList
  <1>4. modRevision \in Nat /\ modRevision' > 0 /\ modRevision' # modRevision
    BY <1>0, <1>1 DEF AdmissionTypeOK
  <1>5. pc[r] = "put" => FoundNoList(r)'
    BY <1>1, Zenon DEF FoundNoList, AdmissionInv
  <1>6. pc[r] = "txn" => modRevision > 0
    BY <1>0 DEF AdmissionInv, AdmissionTypeOK, Unread
  <1>7. ASSUME NEW q \in Request
        PROVE  /\ pc'[q] \in Early => seenRev'[q] = Unread
               /\ seenRev'[q] <= modRevision' /\ seenRev'[q] # modRevision'
               /\ pc'[q] = "put" => seenRev'[q] = 0
               /\ pc'[q] = "txn" => seenRev'[q] > 0
    BY <1>0, <1>1 DEF AdmissionInv, AdmissionTypeOK, Early, Unread
  <1>8. ASSUME NEW q \in Request, pc'[q] = "put"
        PROVE  \E p \in Request : p # q /\ FoundNoList(p)'
    <2>1. q # r /\ pc[q] = "put"
      BY <1>1, <1>8, Zenon
    <2>2. CASE pc[r] = "put"
      BY <1>5, <2>1, <2>2, Zenon
    <2>3. CASE pc[r] = "txn"
      BY <1>3, <1>6, <2>1, <2>3, Zenon DEF AdmissionInv
    <2> QED
      BY <2>2, <2>3, Zenon
  <1>9. AcceptedStored'
    <2> SUFFICES ASSUME \A p, q \in Request : FoundNoList(p)' /\ FoundNoList(q)' => p = q,
                        NEW a \in Request, reply'[a] = "ACCEPTED"
                 PROVE  epochsOf[a] \subseteq list
      BY <1>1, Zenon DEF AcceptedStored, Accepted
    <2>1. CASE a = r
      BY <2>1, Zenon
    <2>2. CASE a # r /\ pc[r] = "txn"
      <3>1. reply[a] = "ACCEPTED"
        BY <1>1, <2>2, Zenon
      <3>2. epochsOf[a] \subseteq epochList
        BY <1>3, <3>1, Zenon DEF AdmissionInv, AcceptedStored, Accepted
      <3> QED
        BY <2>2, <3>2, Zenon
    <2>3. CASE a # r /\ pc[r] = "put"
      <3>1. reply[a] = "ACCEPTED"
        BY <1>1, <2>3, Zenon
      <3>2. PICK q \in Request : q # r /\ FoundNoList(q)
        BY <2>3, <3>1, Zenon DEF AdmissionInv
      <3> QED
        BY <1>3, <1>5, <2>3, <3>2, Zenon
    <2> QED
      BY <2>1, <2>2, <2>3, Zenon
  <1> QED
    BY <1>2, <1>4, <1>7, <1>8, <1>9, Zenon DEF AdmissionInv, Early

\* Every step of the service preserves AdmissionInv.
LEMMA AdmissionInvStep ==
    AdmissionInv /\ [AdmissionNext]_admissionVars => AdmissionInv'
  <1> SUFFICES ASSUME AdmissionInv, [AdmissionNext]_admissionVars
               PROVE  AdmissionInv'
    BY Zenon
  <1> USE AdmissionAssumption
  <1>0. AdmissionTypeOK
    BY Zenon DEF AdmissionInv
  <1>1. ASSUME NEW q \in Quota, UpsertTenantQuota(q) PROVE AdmissionInv'
    <2>1. AdmissionTypeOK'
      BY <1>0, <1>1 DEF AdmissionTypeOK, UpsertTenantQuota, etcdVars, requestVars
    <2> QED
      BY <1>1, <2>1, AnswerStep, Zenon DEF UpsertTenantQuota, etcdVars, requestVars
  <1>2. CASE PutQuota
    <2>1. AdmissionTypeOK'
      BY <1>0, <1>2, Zenon DEF AdmissionTypeOK, PutQuota, requestVars
    <2> QED
      BY <1>2, <2>1, AnswerStep, Zenon DEF PutQuota, requestVars
  <1>3. CASE RoleChanges
    <2>1. AdmissionTypeOK'
      BY <1>0, <1>3, Zenon DEF AdmissionTypeOK, RoleChanges, etcdVars, requestVars
    <2> QED
      BY <1>3, <2>1, AnswerStep, Zenon DEF RoleChanges, etcdVars, requestVars
  <1>4. ASSUME NEW r \in Request, AdmitDataset(r) PROVE AdmissionInv'
    BY <1>4, RequestStep, Zenon DEF AdmitDataset, etcdVars, Early
  <1>5. ASSUME NEW r \in Request, GetQuota(r) PROVE AdmissionInv'
    <2>1. Return(r, "REJECTED") \/ Goto(r, "list")
      BY <1>5, Zenon DEF GetQuota
    <2> QED
      BY <1>5, <2>1, RequestStep, Zenon DEF GetQuota, etcdVars, Early
  <1>6. ASSUME NEW r \in Request, GetEpochList(r) PROVE AdmissionInv'
    <2>1. pc[r] = "list" /\ UNCHANGED <<isLeader, quota, epochList, modRevision, upserting>>
      BY <1>6, Zenon DEF GetEpochList, etcdVars
    <2>2. CASE Return(r, "ERROR") /\ UNCHANGED <<seenList, seenRev>>
      BY <2>1, <2>2, RequestStep, Zenon
    <2>3. CASE /\ seenList' = [seenList EXCEPT ![r] = epochList]
               /\ seenRev' = [seenRev EXCEPT ![r] = modRevision]
               /\ \/ modRevision = 0 /\ Goto(r, "put")
                  \/ modRevision # 0 /\ epochList = epochsOf[r] /\ Return(r, "ACCEPTED")
                  \/ modRevision # 0 /\ epochList # epochsOf[r] /\ Goto(r, "txn")
      <3>1. /\ pc' \in [Request -> PC] /\ reply' \in [Request -> Reply]
            /\ \A q \in Request : q # r => pc'[q] = pc[q] /\ reply'[q] = reply[q]
            /\ pc'[r] \notin Early
            /\ pc'[r] = "put" => modRevision = 0
            /\ pc'[r] = "txn" => modRevision # 0
            /\ \/ reply'[r] = reply[r]
               \/ reply'[r] = "ACCEPTED" /\ modRevision # 0 /\ epochsOf[r] = epochList
        BY <1>0, <2>3, AnswerTypes DEF Reply, AdmissionTypeOK, Early
      <3>2. AdmissionTypeOK'
        BY <1>0, <2>1, <2>3, <3>1, Zenon DEF AdmissionTypeOK, PC
      <3>3. \A q \in Request : /\ seenRev'[q] = IF q = r THEN modRevision ELSE seenRev[q]
                               /\ seenList'[q] = IF q = r THEN epochList ELSE seenList[q]
        BY <1>0, <2>3, Zenon DEF AdmissionTypeOK
      <3>4. \A q \in Request : FoundNoList(q) => FoundNoList(q)' /\ q # r
        <4>1. seenRev[r] # 0
          BY <2>1 DEF AdmissionInv, Unread
        <4> QED
          BY <3>3, <4>1, Zenon DEF FoundNoList
      <3>5. AcceptedStored'
        BY <2>1, <3>1, <3>4, Zenon DEF AdmissionInv, AcceptedStored, Accepted
      <3>6. ASSUME NEW q \in Request
            PROVE  /\ pc'[q] \in Early => seenRev'[q] = Unread
                   /\ seenRev'[q] <= modRevision
                   /\ seenRev'[q] = modRevision => seenList'[q] = epochList
                   /\ pc'[q] = "put" => seenRev'[q] = 0
                   /\ pc'[q] = "txn" => seenRev'[q] > 0
                   /\ reply'[q] = "ACCEPTED" => modRevision > 0
        BY <1>0, <3>1, <3>3 DEF AdmissionInv, AdmissionTypeOK, Early
      <3>7. ASSUME NEW q \in Request, pc'[q] = "put", modRevision > 0
            PROVE  \E p \in Request : p # q /\ FoundNoList(p)'
        BY <3>1, <3>4, <3>7 DEF AdmissionInv
      <3> QED
        BY <2>1, <3>2, <3>5, <3>6, <3>7, Zenon DEF AdmissionInv, Early
    <2> QED
      BY <1>6, <2>2, <2>3, Zenon DEF GetEpochList
  <1>7. ASSUME NEW r \in Request, PutEpochList(r) PROVE AdmissionInv'
    <2>1. CASE WriteList(r, epochsOf[r])
      BY <1>7, <2>1, WriteStep, Zenon DEF PutEpochList
    <2>2. CASE Return(r, "ERROR") /\ UNCHANGED <<epochList, modRevision>>
      BY <1>7, <2>2, RequestStep, Zenon DEF PutEpochList
    <2> QED
      BY <1>7, <2>1, <2>2, Zenon DEF PutEpochList
  <1>8. ASSUME NEW r \in Request, CommitEpochList(r) PROVE AdmissionInv'
    <2>1. CASE modRevision = seenRev[r] /\ WriteList(r, epochsOf[r] \cup seenList[r])
      <3>1. seenList[r] = epochList /\ epochsOf[r] \cup seenList[r] \in SUBSET Epoch
        BY <1>0, <2>1, Zenon DEF AdmissionInv, AdmissionTypeOK
      <3> QED
        BY <1>8, <2>1, <3>1, WriteStep, Zenon DEF CommitEpochList
    <2>2. CASE Return(r, "ERROR") /\ UNCHANGED <<epochList, modRevision>>
      BY <1>8, <2>2, RequestStep, Zenon DEF CommitEpochList
    <2> QED
      BY <1>8, <2>1, <2>2, Zenon DEF CommitEpochList
  <1>9. CASE UNCHANGED admissionVars
    BY <1>9 DEF admissionVars, etcdVars, requestVars, AdmissionInv, AdmissionTypeOK,
                AcceptedStored, Accepted, FoundNoList
  <1> QED
    BY <1>1, <1>2, <1>3, <1>4, <1>5, <1>6, <1>7, <1>8, <1>9, Zenon DEF AdmissionNext

\* AdmissionInv is an invariant of concurrent AdmitDataset and UpsertTenantQuota.
THEOREM AdmissionInvariance == AdmissionSpec => []AdmissionInv
  BY AdmissionInvInit, AdmissionInvStep, PTL DEF AdmissionSpec

\* No admission takes an accepted epoch out of the list, unless two requests of
\* saveEpochs found the dataset without one.
THEOREM AcceptedEpochsStay == AdmissionSpec => []AcceptedStored
  <1>1. AdmissionInv => AcceptedStored
    BY Zenon DEF AdmissionInv
  <1> QED
    BY <1>1, AdmissionInvariance, PTL

\* The quota stays a natural number, and every request has one of the answers.
THEOREM AdmissionTypeCorrect == AdmissionSpec => []AdmissionTypeOK
  <1>1. AdmissionInv => AdmissionTypeOK
    BY Zenon DEF AdmissionInv
  <1> QED
    BY <1>1, AdmissionInvariance, PTL

\* Only the first Put of saveEpochs drops epochs.
THEOREM TransactionsKeepEpochs == AdmissionSpec => EpochsKept
  <1>1. ASSUME AdmissionInv, [AdmissionNext]_admissionVars,
               \A r \in Request : pc[r] # "put"
        PROVE  epochList \subseteq epochList'
    <2>1. ASSUME NEW r \in Request, CommitEpochList(r) PROVE epochList \subseteq epochList'
      <3>1. CASE modRevision = seenRev[r] /\ epochList' = epochsOf[r] \cup seenList[r]
        BY <1>1, <3>1, Zenon DEF AdmissionInv
      <3>2. CASE UNCHANGED epochList
        BY <3>2, Zenon
      <3> QED
        BY <2>1, <3>1, <3>2, Zenon DEF CommitEpochList, WriteList
    <2>2. ASSUME NEW r \in Request, PutEpochList(r) PROVE FALSE
      BY <1>1, <2>2, Zenon DEF PutEpochList
    <2>3. ASSUME NEW r \in Request, AdmitDataset(r) \/ GetQuota(r) \/ GetEpochList(r)
          PROVE  epochList' = epochList
      BY <2>3, Zenon DEF AdmitDataset, GetQuota, GetEpochList, etcdVars
    <2>4. ASSUME RoleChanges \/ PutQuota \/ UNCHANGED admissionVars
          PROVE  epochList' = epochList
      BY <2>4, Zenon DEF RoleChanges, PutQuota, admissionVars, etcdVars
    <2>5. ASSUME NEW q \in Quota, UpsertTenantQuota(q) PROVE epochList' = epochList
      BY <2>5, Zenon DEF UpsertTenantQuota, etcdVars
    <2> QED
      BY <1>1, <2>1, <2>2, <2>3, <2>4, <2>5, Zenon DEF AdmissionNext
  <1>2. AdmissionInv /\ [AdmissionNext]_admissionVars =>
          [(\A r \in Request : pc[r] # "put") => epochList \subseteq epochList']_admissionVars
    BY <1>1, Zenon
  <1> QED
    BY <1>2, AdmissionInvariance, PTL DEF AdmissionSpec, EpochsKept

-----------------------------------------------------------------------------
(* Refused requests *)

\* The request has passed requireLeader, validateAdmitRequest and the quota.
Admitted(r) ==
    /\ r \notin Malformed
    /\ pc[r] \notin {"idle", "quota"}
    /\ reply[r] \notin {"NOT_LEADER", "REJECTED"}

\* A request that is refused leaves nothing in etcd: what is stored beyond the list
\* that was there is of requests that were admitted, also when it was written by
\* others that merged the list they had read.
RefusedLeaveNothing ==
    \E initial \in Existing :
        \A e \in epochList \ initial : \E r \in Request : Admitted(r) /\ e \in epochsOf[r]

\* A malformed request does not get past validateAdmitRequest, and no request has
\* an answer before it returns.
CheckedInv ==
    \A r \in Request :
        /\ pc[r] \in {"quota", "list", "put", "txn"} => r \notin Malformed
        /\ pc[r] # "done" => reply[r] = "none"

\* What a step may do to a request and to the list.
AdmissionKind(r) ==
    \/ pc'[r] = pc[r] /\ reply'[r] = reply[r]
    \/ pc'[r] = "done" /\ reply'[r] \in {"ACCEPTED", "ERROR"} /\ pc[r] \in {"list", "put", "txn"}
    \/ pc'[r] = "done" /\ pc[r] \in {"idle", "quota"}
    \/ /\ reply'[r] = reply[r]
       /\ \/ pc[r] = "idle" /\ pc'[r] = "quota" /\ r \notin Malformed
          \/ pc[r] = "quota" /\ pc'[r] = "list"
          \/ pc[r] = "list" /\ pc'[r] \in {"put", "txn"}

\* One step of one request, as AnswerTypes describes it.
LEMMA OneRequestMoves ==
    ASSUME AdmissionTypeOK, NEW r \in Request, NEW q \in Request,
           \/ \E a \in Reply : Return(r, a) /\ pc[r] \in {"idle", "quota"}
           \/ \E a \in {"ACCEPTED", "ERROR"} : Return(r, a) /\ pc[r] \in {"list", "put", "txn"}
           \/ pc[r] = "idle" /\ r \notin Malformed /\ Goto(r, "quota")
           \/ pc[r] = "quota" /\ Goto(r, "list")
           \/ pc[r] = "list" /\ (Goto(r, "put") \/ Goto(r, "txn"))
    PROVE  AdmissionKind(q)
  <1>1. CASE q # r
    <2>1. pc'[q] = pc[q] /\ reply'[q] = reply[q]
      BY <1>1, AnswerTypes DEF Reply
    <2> QED
      BY <2>1, Zenon DEF AdmissionKind
  <1>2. CASE q = r
    BY <1>2, AnswerTypes DEF AdmissionKind, Reply
  <1> QED
    BY <1>1, <1>2, Zenon

\* Every step is one of these for each request.
LEMMA AdmissionKinds ==
    ASSUME AdmissionTypeOK, [AdmissionNext]_admissionVars, NEW q \in Request
    PROVE  AdmissionKind(q)
  <1>1. ASSUME UNCHANGED <<pc, reply>> PROVE AdmissionKind(q)
    BY <1>1, Zenon DEF AdmissionKind
  <1>2. ASSUME NEW r \in Request, AdmitDataset(r) \/ GetQuota(r) PROVE AdmissionKind(q)
    <2>1. \/ \E a \in Reply : Return(r, a) /\ pc[r] \in {"idle", "quota"}
          \/ pc[r] = "idle" /\ r \notin Malformed /\ Goto(r, "quota")
          \/ pc[r] = "quota" /\ Goto(r, "list")
      BY <1>2, Zenon DEF AdmitDataset, GetQuota, Reply
    <2> QED
      BY <2>1, OneRequestMoves, Zenon
  <1>3. ASSUME NEW r \in Request, GetEpochList(r) \/ PutEpochList(r) \/ CommitEpochList(r)
        PROVE  AdmissionKind(q)
    <2>1. \/ \E a \in {"ACCEPTED", "ERROR"} : Return(r, a) /\ pc[r] \in {"list", "put", "txn"}
          \/ pc[r] = "list" /\ (Goto(r, "put") \/ Goto(r, "txn"))
      BY <1>3, Zenon DEF GetEpochList, PutEpochList, CommitEpochList, WriteList
    <2> QED
      BY <2>1, OneRequestMoves, Zenon
  <1>4. ASSUME RoleChanges \/ PutQuota \/ (\E u \in Quota : UpsertTenantQuota(u))
               \/ UNCHANGED admissionVars
        PROVE  UNCHANGED <<pc, reply>>
    BY <1>4, Zenon DEF RoleChanges, PutQuota, UpsertTenantQuota, admissionVars, requestVars
  <1> QED
    BY <1>1, <1>2, <1>3, <1>4, Zenon DEF AdmissionNext

\* A list that is written has the epochs of the writer and of the list before.
LEMMA ListGrows ==
    ASSUME AdmissionInv, [AdmissionNext]_admissionVars
    PROVE  \/ epochList' = epochList
           \/ \E r \in Request : /\ pc[r] \in {"put", "txn"} /\ pc'[r] = "done"
                                 /\ reply'[r] \in {"ACCEPTED", "ERROR"}
                                 /\ epochList' \subseteq epochsOf[r] \cup epochList
  <1>1. ASSUME NEW r \in Request, PutEpochList(r) \/ CommitEpochList(r),
               epochList' # epochList
        PROVE  /\ pc[r] \in {"put", "txn"} /\ pc'[r] = "done"
               /\ reply'[r] \in {"ACCEPTED", "ERROR"}
               /\ epochList' \subseteq epochsOf[r] \cup epochList
    <2>1. pc[r] \in {"put", "txn"} /\ (Return(r, "ACCEPTED") \/ Return(r, "ERROR"))
      BY <1>1, Zenon DEF PutEpochList, CommitEpochList, WriteList
    <2>2. epochList' = epochsOf[r] \/ (modRevision = seenRev[r] /\ epochList' = epochsOf[r] \cup seenList[r])
      BY <1>1, Zenon DEF PutEpochList, CommitEpochList, WriteList
    <2>3. modRevision = seenRev[r] => seenList[r] = epochList
      BY Zenon DEF AdmissionInv
    <2>4. AdmissionTypeOK
      BY Zenon DEF AdmissionInv
    <2>5. pc'[r] = "done" /\ reply'[r] \in {"ACCEPTED", "ERROR"}
      BY <2>1, <2>4, AnswerTypes DEF Reply
    <2> QED
      BY <2>1, <2>2, <2>3, <2>5, Zenon
  <1>2. ASSUME NEW r \in Request, AdmitDataset(r) \/ GetQuota(r) \/ GetEpochList(r)
        PROVE  epochList' = epochList
    BY <1>2, Zenon DEF AdmitDataset, GetQuota, GetEpochList, etcdVars
  <1>3. ASSUME RoleChanges \/ PutQuota \/ (\E u \in Quota : UpsertTenantQuota(u))
               \/ UNCHANGED admissionVars
        PROVE  epochList' = epochList
    BY <1>3, Zenon DEF RoleChanges, PutQuota, UpsertTenantQuota, admissionVars, etcdVars
  <1> QED
    BY <1>1, <1>2, <1>3, Zenon DEF AdmissionNext

\* Every step keeps admitted requests admitted, and stores only their epochs.
LEMMA RefusedStep ==
    AdmissionInv /\ CheckedInv /\ RefusedLeaveNothing /\ [AdmissionNext]_admissionVars
      => (CheckedInv /\ RefusedLeaveNothing)'
  <1> SUFFICES ASSUME AdmissionInv, CheckedInv, RefusedLeaveNothing, [AdmissionNext]_admissionVars
               PROVE  CheckedInv' /\ RefusedLeaveNothing'
    BY Zenon
  <1>1. \A q \in Request : AdmissionKind(q)
    BY AdmissionKinds, Zenon DEF AdmissionInv
  <1>2. CheckedInv'
    <2> SUFFICES ASSUME NEW q \in Request
                 PROVE  /\ pc'[q] \in {"quota", "list", "put", "txn"} => q \notin Malformed
                        /\ pc'[q] # "done" => reply'[q] = "none"
      BY Zenon DEF CheckedInv
    <2>1. AdmissionKind(q)
      BY <1>1, Zenon
    <2> QED
      BY <2>1, Zenon DEF AdmissionKind, CheckedInv
  <1>3. ASSUME NEW q \in Request, Admitted(q) PROVE Admitted(q)'
    <2>1. AdmissionKind(q)
      BY <1>1, Zenon
    <2> QED
      BY <1>3, <2>1, Zenon DEF AdmissionKind, Admitted
  <1>4. PICK initial \in Existing :
          \A e \in epochList \ initial : \E r \in Request : Admitted(r) /\ e \in epochsOf[r]
    BY Zenon DEF RefusedLeaveNothing
  <1>5. ASSUME NEW e \in epochList' \ initial
        PROVE  \E r \in Request : Admitted(r)' /\ e \in epochsOf[r]
    <2>1. CASE e \in epochList
      BY <1>3, <1>4, <1>5, <2>1, Zenon
    <2>2. CASE e \notin epochList
      <3>1. PICK r \in Request : /\ pc[r] \in {"put", "txn"} /\ pc'[r] = "done"
                                 /\ reply'[r] \in {"ACCEPTED", "ERROR"} /\ e \in epochsOf[r]
        <4>1. e \in epochList' /\ epochList' # epochList
          BY <1>5, <2>2, Zenon
        <4>2. PICK r \in Request : /\ pc[r] \in {"put", "txn"} /\ pc'[r] = "done"
                                   /\ reply'[r] \in {"ACCEPTED", "ERROR"}
                                   /\ epochList' \subseteq epochsOf[r] \cup epochList
          BY <4>1, ListGrows, Zenon
        <4> QED
          BY <2>2, <4>1, <4>2, Zenon
      <3>2. Admitted(r)'
        BY <3>1, Zenon DEF Admitted, CheckedInv
      <3> QED
        BY <3>1, <3>2, Zenon
    <2> QED
      BY <2>1, <2>2, Zenon
  <1> QED
    BY <1>2, <1>5, Zenon DEF RefusedLeaveNothing

\* A request that is answered NOT_LEADER or REJECTED, or that did not get past the
\* checks yet, has written nothing.
THEOREM RefusedRequestsLeaveNothing == AdmissionSpec => []RefusedLeaveNothing
  <1>1. AdmissionInit => CheckedInv /\ RefusedLeaveNothing
    BY Zenon DEF AdmissionInit, CheckedInv, RefusedLeaveNothing
  <1> QED
    BY <1>1, RefusedStep, AdmissionInvariance, PTL DEF AdmissionSpec
=============================================================================
