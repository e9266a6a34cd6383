SPECIFICATION Services
CONSTANTS
  MaxLog = 2
  Event = {e1, e2}
  MaxSeq = 6
  MaxCalls = 2
  Offered = {k1, k2}
  MaxOnb = 1
  MaxAcct = 2
  NoKind = NoKind
  Process = {q1, q2}
  MaxStops = 2
  WizardKind = {k1, k2}
  MaxWizard = 2
  MaxRows = 2
  Unset = Unset
  Form = {"claude_custom", "openai_compat"}
  MaxPuts = 1
  StartCall = {t1, t2, t3}
  Port = {p1, p2}
  NoPort = NoPort
INVARIANTS TypesOK RowIsTrue SchemaIsTrue SettingUpIsTrue
PROPERTIES FeedSpec ServicesEnd
\* Nothing is asked of anybody in the end.
CHECK_DEADLOCK FALSE
