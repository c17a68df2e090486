\* Two connections from one address; two messages over one of them
SPECIFICATION Spec
CONSTANTS
  c1 = c1
  c2 = c2
  Conns = {c1, c2}
  Senders = {c1}
  Addr <- OneAddr
  Messages <- SomeMessages
  MAX = 6
  Header = 3
  Magic = 2
  Settings <- SomeSettings
  MaxMessages = 2
  MaxReconfigs = 1
INVARIANTS TypeOK Intact AnswersInOrder
PROPERTIES NothingStuck SilentIsClosed
CHECK_DEADLOCK FALSE
