\* A live page with two tenants, two changes of the selection and drops at any
\* moment; a chat of two identities, whose storage works or throws.
SPECIFICATION TabSpec
CONSTANTS
  Tenants = {retail, wealth}
  Sockets = {s1, s2, s3, s4}
  Timers = {t1, t2, t3, t4}
  MaxSelects = 2
  None = None
  Identities = {cfo, cro}
  NoAsk = NoAsk
  MaxMessages = 4
  KeptTail = 2
  Quota = 6
  AnswerSize = 2
  MaxAsks = 3
INVARIANTS StorageFollowsTheScreen
PROPERTIES StreamComesBack NoQuestionIsLost
CHECK_DEADLOCK FALSE
