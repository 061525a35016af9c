\* Three slots; two packages a command can name; a result ring of three
\* places, which holds two; at most four insertions between two
\* reinitialisations, so that a slot is used again and the item count passes
\* the number of slots.
CONSTANTS
  NSlot = 3
  EndValue = 1000
  QueueLen = 3
  Pkg = {p1, p2}
  NoPkg = NoPkg
  MaxInsert = 4
SPECIFICATION FairSpec
INVARIANTS
  TypeOK
  ListIsSortedRing
  PassVisitsAllOnce
PROPERTIES
  LoopsEnd
  ImplementsPool
