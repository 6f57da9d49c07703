SPECIFICATION FairSpec
CONSTANTS
  Part = {"SIGN_", "signature", ".", "text", "prog", "code", "other"}
  m1 = m1
  m2 = m2
  Module = {m1, m2}
  Objects <- MCObjects
  Payloads <- MCPayloads
  NoPayload = NoPayload
  Ctl = {u1}
  Bridge = {b1}
  Requests <- MCRequests
  MaxFd = 5
  MaxEvents = 0
  Nil = Nil
INVARIANTS ListedIsTrusted RefsBalanced SignatureCheckIsRight
PROPERTIES AnswerIsTrue RequestEnds
CHECK_DEADLOCK FALSE
