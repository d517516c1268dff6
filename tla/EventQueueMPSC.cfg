\* Two producers, as btop uses the queue.
SPECIFICATION Spec
CONSTANTS
  handler = handler
  runner = runner
  e1 = e1
  e2 = e2
  Producers <- BtopProducers
  Items <- TwoItems
  NoItem = NoItem
  Torn = Torn
  Capacity = 2
  Wrap = 8
PROPERTY ImplementsFifo
