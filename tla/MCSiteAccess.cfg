SPECIFICATION Spec
CONSTANTS
  a = a  relay = relay  t1 = t1
  Sites = {a, relay}
  Relay = {relay}
  Tabs = {t1}
  Slots = {1, 2}
  MaxActions = 4
  NoSite = NoSite
  Elsewhere = Elsewhere
INVARIANTS
  EnabledNotRevoked
  ListenersArePermitted
PROPERTIES
  EventuallyConsistent
