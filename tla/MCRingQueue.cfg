\* Four slots, which hold three items; each ring has one producing context.
CONSTANTS
  Size = 4
  a = a
  b = b
  c = c
  Item = {a, b, c}
  Contexts = {{"main"}, {"isr"}}
SPECIFICATION Spec
INVARIANTS TypeOK
PROPERTIES ImplementsFifo
