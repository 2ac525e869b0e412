SPECIFICATION Spec
CONSTANTS
  Users = {u1}
  Ops = {"ListDatasets", "ListPds", "ListSpool", "SubmitIO", "PurgeJob", "GetJobStatus",
         "SubmitJesGetByDSN"}
  AppSets = {"FILETYPE", "JESJOBNAME"}
INVARIANTS TypeOK RightMode SettingsRestored
