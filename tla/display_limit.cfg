SPECIFICATION Spec
CONSTANTS
  Send = Send
  Delegate = Delegate
  MultiSend = MultiSend
  Transfer = Transfer
  hub = hub
  zero = zero
  empty = empty
  plain = plain
  list = list
  own = own
  alice = alice
  longA = longA
  longB = longB
  long = long
  bad = bad
  LeafKeys <- MCLeafKeys
  AmountKeys <- MCAmountKeys
  Docs <- ManyItems
  Vals <- MCVals
  Atoms <- MCAtoms
  MultiTypes = {MultiSend}
  KnownTypes = {Send, Delegate}
  EmptyVal = empty
  FirstPage <- MCFirstPage
  DefaultChain = hub
  ForbiddenChains = {zero}
  OwnAddress = own
  BadAmounts = {bad}
  ByteMax = 15
INVARIANTS
  ItemsReachable
