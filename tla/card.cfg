\* The card is removed and inserted from boot on, while bank entries load.
SPECIFICATION Spec
CONSTANTS
  Patches = {p1, p2}
  Features = {"boot", "card", "index"}
  MaxToggles = 2
INVARIANTS TypeOK NeverStopsItself
