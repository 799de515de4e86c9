\* Two ranges in one page; two blocks that overlap; no event.
CONSTANTS
  WORDS = 4
  RANGE = 2
  PAGE = 4
  Keys <- MirrorKeys
  MaxEvents = 0
  NoKey = NoKey
  NoBlock = NoBlock
  NoJob = NoJob
SPECIFICATION Spec
INVARIANTS RunsWhatIsThere IndexesAgree ProtectedWhereCodeIs
PROPERTY SwitchHelps
