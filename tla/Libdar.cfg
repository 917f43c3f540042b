SPECIFICATION FairSpec
CONSTANT MaxFailures = 1
INVARIANTS ServerMeetsNoBug PageFollowsThread
PROPERTIES KeepsDialogue DialogueEnds
