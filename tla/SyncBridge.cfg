\* One call of the client and one of its session, two closes of the client and
\* one of the session; one close of each is made in the main thread.
SPECIFICATION BridgeSpec
CONSTANTS
  ClientCalls = {ask}
  SessionCalls = {look}
  SessionClosers = {shut1}
  ClientClosers = {close1, close2}
  Main = {look, shut1, close1}
INVARIANTS
  CallsAreNotCutOff
  NormalCloseIsComplete
PROPERTIES
  OperationsReturn
CHECK_DEADLOCK FALSE
