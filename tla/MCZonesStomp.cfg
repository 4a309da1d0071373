SPECIFICATION Spec
CONSTANTS
  Clients = {c1, c2}
  Lists = {l1, l2}
  NoList = NoList
  MaxVersion = 3
  MaxLine = 1
PROPERTIES
  SavesReplaceWhatWasRead
