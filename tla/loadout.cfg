SPECIFICATION Spec
CONSTANTS
  OneHanded = {sword}
  TwoHanded = {maul}
  Shields = {shield}
  Others = {}
  OtherSlots = {}
  SlotOf <- NoSlots
  Empty = Empty
  FIGHT_LOCK_DURATION_MS = 1
  MaxTime = 1
  StartGears <- Armed
  MaxEdits = 2
  MaxSaves = 2
  MaxFights = 2
  MaxMishaps = 1
INVARIANTS TypeOK GearIsSound HonestSaveLands LockGuardsTheFight
CHECK_DEADLOCK FALSE
