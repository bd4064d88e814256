SPECIFICATION Spec
CONSTANTS
  n1 = n1
  n2 = n2
  n3 = n3
  c1 = c1
  c2 = c2
  Names <- MCNames
  Chats <- MCChats
  ChatOf <- MCChatOf
  Keys = {k1}
  Requests = {d1}
  NoRow = NoRow
  NoName = NoName
  NoObject = NoObject
INVARIANTS
  TypeOK
  BucketsCoherent
PROPERTIES
  ObjectsSurvive
  OnlyOrphansAreDropped
SYMMETRY MCSymmetry
