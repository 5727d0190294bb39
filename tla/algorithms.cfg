\* All the inputs of the small domains that Algorithms defines.
SPECIFICATION Spec
CONSTANTS
  Null = Null
  Missing = Missing
  Corrupt = Corrupt
  FieldNames = {"tool_name", "tool_input_file_path", "session_id", "message_role", "tool_result", "no_such"}
  ArgumentKeys = {"path", "mode"}
  Operators = {"", "eq", "neq", "glob", "contains", "like"}
  ComparedParts = {"bash", "*"}
  ArgumentParts = {"src", "bash"}
  MaxParts = 2
  Threshold = 5
  PreviewTokens = 1
  SuffixTokens = 1
  KeepTokens = 3
  KeepMessages = 2
  BreakerThreshold = 2
  UseIds = {"a", "b"}
  MessageSizes = {1, 3}
  MaxMessages = 4
  MaxTried = 4
  MaxSize = 1
  DefaultMaxTurns = 50
  ToolNames = {"Bash", "ReadFile", "WriteFile", "agent"}
  ListedNames = {"Bash", "ReadFile", "agent", "bash"}
  ConfigNames = {"Bash", "ReadFile"}
  RunTypes = {"", "fork", "other"}
  RoleNames = {"", "gerneral-purpose", "none"}
  Tasks = {"", "t"}
  Turns = {0, 4}
  CallIds = {"a", "b"}
  TaskIds = {"1", "2", "3"}
  Statuses = {"running", "completed", "failed"}
  MaxHistory = 4
  MaxAsked = 3
CHECK_DEADLOCK FALSE
INVARIANTS
  HooksHold
  LoadsHold
  TextsHold
  CompactionHolds
  StreamsHold
  RunsHold
  ViewsHold
