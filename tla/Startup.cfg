SPECIFICATION FairSpec
CONSTANTS
  Handler = {h1, h2}
  MaxChanges = 2
INVARIANTS ProfileFound RuntimeInstalled OneProfile
PROPERTIES ProfileReturned
