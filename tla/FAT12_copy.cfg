SPECIFICATION DirSpec
CONSTANTS
  Images <- MCImages
  Typed <- MCTyped
  toupper <- MCtoupper
  LastCluster = 4
INVARIANTS CopyIsFile ListedCanBeCopied ListingIsTrue
