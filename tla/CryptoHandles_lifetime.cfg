SPECIFICATION Spec
CONSTANTS
  main = main
  socket = socket
  Encryptors = {e1}
  Decryptors = {d1}
  SM4Encryptors = {s1}
  SM4Decryptors = {r1}
  Callers = {main, socket}
  Owner <- MCOwner
  Senders = {v1}
  Receivers = {c1}
  NoObject = NoObject
INVARIANTS
  TypeOK
  NoUseAfterFree
  ArraysReleased
