\* Two tenants share the sequence; two transactions and two pollers overlap.
SPECIFICATION FairSpec
CONSTANTS
  Tenants = {demo, t1}
  Writers = {x1, x2}
  Pollers = {p1, p2}
  InScope <- DemoScope
  Demo = demo
  Retired = 1
  Page = 2
  None = None
  MaxSequence = 3
INVARIANTS
  NoEventSkipped
PROPERTIES
  CursorAdvances
  KeepsLog
  EveryEventArrives
