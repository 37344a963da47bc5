SPECIFICATION Spec
CONSTANTS
  producer = producer
  listener = listener
  init = init
  onTransportClose = onTransportClose
  onOther = onOther
  Threads = {t1, t2, t3}
  Classes = {producer, listener}
  Methods = {init, onTransportClose, onOther}
  ClassOf <- MCClassOf
  NoRef = NoRef
INVARIANTS
  TypeOK
  ClassIsLive
  OneRefStored
  NoCallWithException
PROPERTY FilledOnce
CHECK_DEADLOCK FALSE
