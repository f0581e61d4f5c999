\* One fact for the two of a refresh, and one search of the visitor at a time, beside
\* those of the polls.
SPECIFICATION FairPageSpec
CONSTANTS
  Polls <- MCPolls
  Visitors = {v1}
  Script = Script
  Facts = {"stats"}
  MaxCatalogs = 3
  MaxTroubles = 1
INVARIANT PageIsCurrent
PROPERTY PageCatchesUp
