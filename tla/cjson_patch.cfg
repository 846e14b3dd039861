\* Two documents and what leads from the one to the other; other patches.
SPECIFICATION Spec
CONSTANTS
  None = None
  Document <- Documents
  Given <- PatchArrays
  Target <- Targets
INVARIANTS PatchesLeadThere MergePatchesLeadThere
PROPERTIES AddedIsFound
CHECK_DEADLOCK FALSE
