SPECIFICATION FairSpec
CONSTANTS
  Thread = {t1, t2}
  Object = {o1, o2, o3}
  Immediate = {TRUE, FALSE}
  MaxRequest = 2
  MaxPreborn = 2
  Busy = {t1}
  MaxObjects = 2
INVARIANT ObjectsAgree
INVARIANT NoLostRequest
INVARIANT RevokedIsGone
PROPERTY ImmediateIsThrown
