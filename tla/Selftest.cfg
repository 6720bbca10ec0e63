\* Two processes.
CONSTANTS
  Hosts = {h1, h2}
  MaxTests = 3
SPECIFICATION SelftestSpec
INVARIANTS
  SelftestTypeOK
  RaceWindow
