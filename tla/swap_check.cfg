SPECIFICATION SwapSpec
CONSTANTS
  Send = Send
  Delegate = Delegate
  MultiSend = MultiSend
  Transfer = Transfer
  hub = hub
  zero = zero
  empty = empty
  plain = plain
  list = list
  own = own
  alice = alice
  longA = longA
  longB = longB
  long = long
  bad = bad
  LeafKeys <- MCLeafKeys
  AmountKeys <- MCAmountKeys
  osmo = osmo
  six = six
  three = three
  both = both
  note = note
  longNote = longNote
  manyDigits = manyDigits
  Docs <- MCSwapDocs
  Vals <- SwapVals
  Atoms <- MCAtoms
  MultiTypes = {MultiSend}
  KnownTypes = {Send, Delegate}
  EmptyVal = empty
  FirstPage <- SwapFirstPage
  DefaultChain = hub
  ForbiddenChains = {zero}
  OwnAddress = own
  BadAmounts = {bad}
  ByteMax = 255
  Parameters <- MCParameters
  Numbers <- MCNumbers
  Denoms = {"uatom", "uosmo"}
  Ticker = "ATOM"
  CoinsOf <- SwapCoins
  Chains <- MCChains
  BaseDenom <- MCBaseDenom
  SendText = Send
  TooLong = {longNote, longA, longB, long}
  BigNumbers = {manyDigits}
  SwapPage <- SwapFirstPage
INVARIANTS
  SwapTypeOK
  AcceptedRowsAgree
  AcceptedPaysAgreed
  AgreedIsAccepted
