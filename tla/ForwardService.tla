---------------------------- MODULE ForwardService ----------------------------
(***************************************************************************)
(* What a storage server promises the naming server: it takes one request, *)
(* executes it in one step, and answers with how that went and with the    *)
(* files that were there then (src/StorageServers/server.c:53-117).        *)
(***************************************************************************)
CONSTANTS File, Forwarded, InitFiles

VARIABLES
  present,    \* the files on the disk
  phase,      \* "idle", "taken" or "done"
  req,        \* the request
  ack, list   \* the answer

After == IF req.type = "CREATE_FILE" THEN present \union {req.arg} ELSE present \ {req.arg}

Init == /\ present = InitFiles
        /\ phase = "idle" /\ req \in Forwarded
        /\ ack = "success" /\ list = {}

Take(r) == /\ phase = "idle"
           /\ phase' = "taken" /\ req' = r
           /\ UNCHANGED <<present, ack, list>>

Execute == /\ phase = "taken"
           /\ phase' = "done"
           /\ present' = After
           /\ list' = After
           /\ ack' = IF req.type = "CREATE_FILE" \/ req.arg \in present THEN "success" ELSE "failure"
           /\ UNCHANGED req

Answer == /\ phase = "done"
          /\ phase' = "idle"
          /\ ack' = "success" /\ list' = {}
          /\ UNCHANGED <<present, req>>

vars == <<present, phase, req, ack, list>>
Spec == Init /\ [][Execute \/ Answer \/ \E r \in Forwarded : Take(r)]_vars
=============================================================================
