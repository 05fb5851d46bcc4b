SPECIFICATION Spec
CONSTANTS
  Login = {l1, l2}
  Nobody = nobody
  Old = old
INVARIANTS
  EndpointIsOwn
  OneBrowser
  AnswerIsFinal
PROPERTIES
  LoginEnds
