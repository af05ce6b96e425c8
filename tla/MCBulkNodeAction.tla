------------------------- MODULE MCBulkNodeAction -------------------------
(* Model-checking instance of BulkNodeAction with the node action         *)
(* registry of maasserver.node_action: the status each action may start  *)
(* from, the status it commits, the permission it needs, and whether it   *)
(* calls out to the power or commissioning collaborator.                 *)
EXTENDS BulkNodeAction, TLC

AllStatuses == {"NEW", "COMMISSIONING", "FAILED_COMMISSIONING", "READY",
                "ALLOCATED", "DEPLOYING", "DEPLOYED", "FAILED_DEPLOYMENT",
                "RELEASING", "BROKEN"}
MCActions == {"commission", "acquire", "deploy", "release",
              "mark-broken", "mark-fixed", "delete", "set-zone"}
MCRequiredPerm ==
  [a \in MCActions |->
     CASE a \in {"commission", "mark-fixed", "delete", "set-zone"} -> "admin"
       [] a \in {"deploy", "release", "mark-broken"} -> "edit"
       [] a = "acquire" -> "view"]
MCLegalFrom ==
  [a \in MCActions |->
     CASE a = "commission" -> {"NEW", "FAILED_COMMISSIONING", "READY", "BROKEN"}
       [] a = "acquire" -> {"READY"}
       [] a = "deploy" -> {"ALLOCATED"}
       [] a = "release" -> {"ALLOCATED", "DEPLOYED", "DEPLOYING", "FAILED_DEPLOYMENT"}
       [] a = "mark-broken" -> AllStatuses \ {"BROKEN"}
       [] a = "mark-fixed" -> {"BROKEN"}
       [] a \in {"delete", "set-zone"} -> AllStatuses]
MCTarget ==
  [a \in MCActions |->
     CASE a = "commission" -> "COMMISSIONING"
       [] a = "acquire" -> "ALLOCATED"
       [] a = "deploy" -> "DEPLOYING"
       [] a = "release" -> "RELEASING"
       [] a = "mark-broken" -> "BROKEN"
       [] a = "mark-fixed" -> "READY"
       [] a = "delete" -> "DELETED"
       [] a = "set-zone" -> "READY"]
MCExternal == [a \in MCActions |-> a \in {"commission", "deploy", "release"}]

MCInitStatuses == {"READY", "ALLOCATED", "DEPLOYED", "BROKEN"}
NodeSymmetry == Permutations(Nodes)
=============================================================================
