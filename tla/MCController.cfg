SPECIFICATION Spec
CONSTANTS
 r1=r1 r2=r2 c1=c1 o1=o1 a1=a1 a2=a2 a3=a3 a4=a4
 Nodes={r1,r2,c1} Slots={c1} Owners={o1} OwnerOf<-MCOwnerOf Attempts={a1,a2,a3,a4} Variants<-MCVariants
 Ceiling=3 Version=3 MaxPerNode=2 MaxCalls=4 MaxInput=4 MaxOutput=5 MaxSpend=4 MaxEvents=14 StartAt=0 Deadline=2 BaseDelay=1 MaxDelay=1 None=None
 Inputs={1} Spends={1} Lives={1} Outcomes<-MCOutcomes Waits={0} Horizon=2
INVARIANTS OneOpenAttempt OnePendingDispatch TerminalRoom FinishedNodeQuiet FinalizedOwnerFrozen
SYMMETRY Perms
CHECK_DEADLOCK FALSE
