----------------------- MODULE MCNodeActionExecutor -----------------------
(* Model-checking instance of NodeActionExecutor with the action registry *)
(* of MCBulkNodeAction.                                                    *)
EXTENDS NodeActionExecutor, TLC

AllStatuses == {"NEW", "COMMISSIONING", "FAILED_COMMISSIONING", "READY",
                "ALLOCATED", "DEPLOYING", "DEPLOYED", "FAILED_DEPLOYMENT",
                "RELEASING", "BROKEN"}
MCActions == {"commission", "acquire", "deploy", "release",
              "mark-broken", "mark-fixed", "delete", "set-zone"}
MCRequiredPerm ==
  [a \in MCActions |->
     CASE a \in {"commission", "mark-fixed", "delete", "set-zone"} -> "admin"
       [] a \in {"deploy", "release", "mark-broken"} -> "edit"
       [] a = "acquire" -> "view"]
MCLegalFrom ==
  [a \in MCActions |->
     CASE a = "commission" -> {"NEW", "FAILED_COMMISSIONING", "READY", "BROKEN"}
       [] a = "acquire" -> {"READY"}
       [] a = "deploy" -> {"ALLOCATED"}
       [] a = "release" -> {"ALLOCATED", "DEPLOYED", "DEPLOYING", "FAILED_DEPLOYMENT"}
       [] a = "mark-broken" -> AllStatuses \ {"BROKEN"}
       [] a = "mark-fixed" -> {"BROKEN"}
       [] a \in {"delete", "set-zone"} -> AllStatuses]
MCTarget ==
  [a \in MCActions |->
     CASE a = "commission" -> "COMMISSIONING"
       [] a = "acquire" -> "ALLOCATED"
       [] a = "deploy" -> "DEPLOYING"
       [] a = "release" -> "RELEASING"
       [] a = "mark-broken" -> "BROKEN"
       [] a = "mark-fixed" -> "READY"
       [] a = "delete" -> "DELETED"
       [] a = "set-zone" -> "READY"]
MCExternal == [a \in MCActions |-> a \in {"commission", "deploy", "release"}]

MCInitStatuses == {"READY", "ALLOCATED", "BROKEN"}
StatusChangingActions == MCActions \ {"delete", "set-zone"}
AcquireOrDelete == {"acquire", "delete"}
AcquireOnly == {"acquire"}
ReadyOnly == {"READY"}
RequestSymmetry == Permutations(Requests)
=============================================================================
