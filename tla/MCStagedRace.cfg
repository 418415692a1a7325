SPECIFICATION Spec
CONSTANTS
 r1=r1 r2=r2 o1=o1 a1=a1 a2=a2 p1=p1 p2=p2
 Nodes={r1,r2} Slots={} Owners={o1} OwnerOf<-MCOwnerOf Attempts={a1,a2} Variants<-MCVariants
 Ceiling=3 Version=2 MaxPerNode=2 MaxCalls=2 MaxInput=4 MaxOutput=4 MaxSpend=4 MaxEvents=8 StartAt=0 Deadline=1 BaseDelay=0 MaxDelay=0 None=None
 Inputs={1} Spends={1} Lives={2} Outcomes<-MCOutcomes Waits={0} Results<-MCResults Horizon=1 MaxCrashes=0 Procs={p1,p2}
INVARIANT StopOnlyOnBadEvidence
SYMMETRY Perms
CHECK_DEADLOCK FALSE
