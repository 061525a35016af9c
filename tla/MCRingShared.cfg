\* The rings both contexts put items in: msgSendQueue, the relay queues.
CONSTANTS
  Size = 4
  a = a
  b = b
  c = c
  Item = {a, b, c}
  Contexts = {{"main", "isr"}}
SPECIFICATION Spec
PROPERTIES AssignedToNewTail
