SPECIFICATION PresetSpec
CONSTANTS
  Presets = {x}
  OwnPresets = {x}
  PresetOps = {o1, o2, o3}
  NoOp = NoOp
  MaxPresetFaults = 0
CHECK_DEADLOCK FALSE
INVARIANTS
  DeletedNotRestored
