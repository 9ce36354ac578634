\* One client, too slow beyond one queued message, under the event loop's fairness.
SPECIFICATION FairSpec
CONSTANTS
  QueueLimit = 1
  MaxMessages = 3
  MaxSnapshots = 3
INVARIANTS NothingDropped LatestWins GoneIsQuiet
PROPERTIES RepliesArrive SlowConsumerLeaves
CHECK_DEADLOCK FALSE
