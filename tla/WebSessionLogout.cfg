SPECIFICATION Spec
CONSTANTS
  Tabs = {w1}
  PageCalls = {c1, c2}
  Me = Me
  MaxPairs = 2
PROPERTY
  LoggedOutStaysOut
