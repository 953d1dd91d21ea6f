SPECIFICATION Spec
CONSTANTS
  Ids = {1, 2, 3}
  Names = {ann, bob, cid}
  NoName = none
  Cards = {c1}
  NParts = 2
  AdminLen = 2
  UserMin = 1
  UserMax = 2
  MaxUids = 2
  MaxTyped = 2
  YubiKeys = {y1, y2}
  MaxDialogs = 2
  MaxEdits = 1
INVARIANT FormFits
INVARIANT PinLength
INVARIANT OneTryPerDialog
PROPERTY TakenByServer
PROPERTY TypedStays
PROPERTY OnlyEditedChanges
PROPERTY WipesNamedCard
SYMMETRY Symmetry
CHECK_DEADLOCK FALSE
