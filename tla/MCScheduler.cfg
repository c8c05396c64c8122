\* Phased and ordinary runs of one package, two resources, a fifo request.
SPECIFICATION FairSpec
CONSTANTS
  r1 = r1
  r2 = r2
  r3 = r3
  g1 = g1
  g2 = g2
  x = x
  y = y
  None = None
  Requests = {r1, r2, r3}
  Groups = {g1, g2}
  Resources = {x, y}
  Limits = {1, 2}
  LeaseIds = {l1, l2, l3}
  Offers <- MixedOffers
INVARIANTS BooksAgree NoStartableWaiter HolderKeepsLease
PROPERTIES ImplementsSlots EveryWaiterServed
