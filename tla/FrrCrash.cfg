\* The comment on crashes in _read_records.
SPECIFICATION Spec
CONSTANTS
  Nodes <- OneNode
  Daemons <- OneDaemon
  Pids = {p1, p2}
  MaxHarm = 1
INVARIANT CrashIsRecoverable
