SPECIFICATION Spec
CONSTANTS
  Instances = {i1, i2}
  Requests = {r1, r2, r3}
  Codes = {countries, taxonomy, other}
  Countries = countries
  Taxonomy = taxonomy
  MaxCrashes = 3
  Default = default
  Legacy = legacy
  Null = null
  None = None
SYMMETRY Symmetry
CHECK_DEADLOCK FALSE
INVARIANTS
  LegacyCountriesSurvive
  SeedingSparesWrittenValues
  ServedSettingsExist
