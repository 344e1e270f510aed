SPECIFICATION FairSpec
CONSTANTS
  Presets = {"strict", "moderate", "permissive", "block_all"}
  RuntimePresets = {"strict", "moderate", "permissive"}
  Overlay <- OrgOverlay
  Contents <- Loadable
  StartContents <- StartFiles
  Unparsable = Unparsable
  None = None
  Reloaders = {"r1"}
  Requests = {"q1"}
  MaxEdits = 3
CHECK_DEADLOCK FALSE
INVARIANTS EvaluatorFollowsHandler UnloadablePresetRefuses
PROPERTIES ReloadConverges
