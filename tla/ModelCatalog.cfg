SPECIFICATION Spec
CONSTANTS
  m1 = m1
  m2 = m2
  small = small
  large = large
  Unknown = Unknown
  NoPreset = NoPreset
  Imported = Imported
  Malformed = Malformed
  Invalid = Invalid
  Models = {m1, m2}
  Values = {small, large}
  Calls = {c1, c2}
  Fields <- MCFields
  Answers <- MCAnswers
  PresetRows <- MCPresetRows
  Overrides <- MCOverrides
  MaxVersion = 2
  MaxCalls = 3
  Importable = {m2}
SYMMETRY Symmetry
CHECK_DEADLOCK FALSE
INVARIANTS
    AvailableIsOneListing
    ProvenanceTruthful
PROPERTIES
    DecisionsSurviveDiscovery
    ProbesReportInOrder
