----------------------------- MODULE NodeServer -----------------------------
(***************************************************************************)
(* LeibrixNodeServer (internal/cluster/server.go): the etcd server that is *)
(* embedded in every master.  What Start does depends on the data          *)
(* directory that earlier processes of the node have left, at whatever     *)
(* point they ended.                                                       *)
(*                                                                         *)
(* etcd itself is external.  It fills its directory in the order of Disk,  *)
(* may fail while it starts, and need not become ready.                    *)
(***************************************************************************)

VARIABLES
    disk,          \* how far the data directory is filled
    etcd,          \* the embedded server
    clusterState,  \* the cluster state it is being started with
    serverState,   \* s.serverState
    everReady      \* Start has returned nil once, in this process or an earlier one

nodeVars == <<disk, etcd, clusterState, serverState, everReady>>

\* No member directory; the directory alone; the snapshot database; the WAL.
Disk == {"absent", "member", "db", "wal"}

\* The types, and that a server is ready only if etcd has come up.
NodeTypeOK ==
    /\ disk \in Disk
    /\ etcd \in {"down", "starting", "ready", "closed"}
    /\ clusterState \in {"none", "new", "existing"}
    /\ serverState \in {"init", "ready", "stopped"}
    /\ everReady \in BOOLEAN
    /\ serverState = "ready" => etcd \in {"ready", "closed"}

NodeInit ==
    /\ disk = "absent"
    /\ etcd = "down"
    /\ clusterState = "none"
    /\ serverState = "init"
    /\ everReady = FALSE

\* A new process finds what is on the disk.
NodeRestarts ==
    /\ etcd' = "down"
    /\ clusterState' = "none"
    /\ serverState' = "init"
    /\ UNCHANGED <<disk, everReady>>

-----------------------------------------------------------------------------
(* Start *)

\* Mutant: the files are looked for in another directory.
detectElsewhere == "new"

\* A member directory with neither a WAL nor a snapshot database: a panic.
detectClusterState ==
    CASE disk = "absent"        -> "new"
      [] disk \in {"db", "wal"} -> "existing"
      [] OTHER                  -> "panic"

\* buildEtcdConfig succeeds and embed.StartEtcd is called.
NodeStarts ==
    /\ serverState = "init" /\ etcd = "down"
    /\ detectClusterState # "panic"
    /\ clusterState' = detectClusterState
    /\ etcd' = "starting"
    /\ UNCHANGED <<disk, serverState, everReady>>

\* etcd creates its directory, its database and its WAL.
EtcdWrites ==
    /\ etcd = "starting"
    /\ \/ disk = "absent" /\ disk' = "member"
       \/ disk = "member" /\ disk' = "db"
       \/ disk = "db" /\ disk' = "wal"
    /\ UNCHANGED <<etcd, clusterState, serverState, everReady>>

EtcdReady ==
    /\ etcd = "starting"
    /\ disk = "wal"
    /\ etcd' = "ready"
    /\ UNCHANGED <<disk, clusterState, serverState, everReady>>

\* Start sees ReadyNotify.
NodeStarted ==
    /\ serverState = "init" /\ etcd = "ready"
    /\ serverState' = "ready"
    /\ everReady' = TRUE
    /\ clusterState' = "none"
    /\ UNCHANGED <<disk, etcd>>

\* StartEtcd returns an error, or the timeout ends Start, which closes etcd.
NodeStartFails ==
    /\ serverState = "init" /\ etcd \in {"starting", "ready"}
    /\ etcd' = "closed"
    /\ UNCHANGED <<disk, clusterState, serverState, everReady>>

-----------------------------------------------------------------------------
(* Stop *)

\* Stop closes etcd and waits for it, or for its context: it returns in the
\* same state either way.  It does nothing when Start has not returned nil.
NodeStops ==
    IF serverState = "ready"
    THEN /\ etcd' = "closed"
         /\ serverState' = "stopped"
         /\ UNCHANGED <<disk, clusterState, everReady>>
    ELSE UNCHANGED nodeVars
=============================================================================
