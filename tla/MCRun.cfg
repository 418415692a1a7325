SPECIFICATION FairSpec
CONSTANTS
 x=x y=y z=z probe=probe
 Outputs={x,z} StepOf<-MCStepOf LastStep=2 Probes={probe} LastCall=3 Requests<-MCRequests Sealers={j1} Starters={s1}
 MaxRetries=1 Exchanges<-MCExchanges MaxMishaps=1 None=None Torn=Torn
INVARIANTS LedgerChained PassMatchesEvidence StepsFollowSeals CallsAnchored
PROPERTIES VerifiedForGood InvocationsEnd
CHECK_DEADLOCK FALSE
