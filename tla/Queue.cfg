CONSTANTS
  Lines = {line1, line2, line3}
  NoElem = NoElem
  max_size = 3
SPECIFICATION Spec
INVARIANT CountersAgree
PROPERTY ImplementsFifo
