SPECIFICATION FairSpec
CONSTANTS
  Signal = {s1, s2}
  Client = {c1, c2}
  Thread = {t1, t2}
  None = None
  Pipelined = FALSE
  Faults = {"disconnect", "refuse"}
CHECK_DEADLOCK FALSE
INVARIANTS
  TypeOK
  NoDanglingObserver
  ListsAgree
  NoPushAfterUnsubscribe
  EventGivenBack
  IInv
  OnlyHolders
  NoLockCycle
PROPERTIES
  Implements
  WalkedListStable
  Completes
